---------------------------- MODULE Spec2Model ----------------------------
(***************************************************************************)
(* The retrieval-augmented answer pipeline of CHESM_MELBAA: the request    *)
(* handlers of api/chat.js and of its variants, one request at a time.     *)
(*                                                                         *)
(* A string is a sequence of atoms: single characters where the code looks *)
(* inside the text (error bodies, queries, titles, answers), whole literal *)
(* chunks for the fixed parts of the code's templates.  A JavaScript value *)
(* that may be of several kinds is a record tagged by t.                   *)
(***************************************************************************)
EXTENDS Integers, Sequences, FiniteSets, TLC

\* ------------------------------------------------------------- bounds ----
\* The longest passage list the retrieval backend returns in the model:
\* one more than the source cap, so that the cap is exercised.
MaxPassages == 11

\* ------------------------------------------------------------ strings ----
Upper == <<"A","B","C","D","E","F","G","H","I","J","K","L","M",
           "N","O","P","Q","R","S","T","U","V","W","X","Y","Z">>
Lower == <<"a","b","c","d","e","f","g","h","i","j","k","l","m",
           "n","o","p","q","r","s","t","u","v","w","x","y","z">>

\* One character folded to lower case, as the regular expression flag i does.
LowerChar(c) ==
  IF \E i \in 1..26 : Upper[i] = c
  THEN Lower[CHOOSE i \in 1..26 : Upper[i] = c]
  ELSE c

ToLower(s) == [i \in 1..Len(s) |-> LowerChar(s[i])]

\* sub occurs in s
Contains(s, sub) ==
  \E i \in 1..(Len(s) - Len(sub) + 1) : SubSeq(s, i, i + Len(sub) - 1) = sub

\* s ends with suffix
EndsIn(s, suffix) ==
  Len(suffix) <= Len(s) /\ SubSeq(s, Len(s) - Len(suffix) + 1, Len(s)) = suffix

IsSpace(c) == c \in {" ", "\n", "\t"}

RECURSIVE TrimStart(_)
TrimStart(s) ==
  IF s # <<>> /\ IsSpace(Head(s)) THEN TrimStart(Tail(s)) ELSE s

RECURSIVE TrimEnd(_)
TrimEnd(s) ==
  IF s # <<>> /\ IsSpace(s[Len(s)]) THEN TrimEnd(SubSeq(s, 1, Len(s) - 1)) ELSE s

\* String.prototype.trim
Trim(s) == TrimEnd(TrimStart(s))

\* a || b on strings: the empty string is falsy
OrStr(a, b) == IF a # <<>> THEN a ELSE b

\* Array.prototype.join on a sequence of strings
RECURSIVE Join(_, _)
Join(parts, sep) ==
  IF parts = <<>> THEN <<>>
  ELSE IF Len(parts) = 1 THEN parts[1]
  ELSE parts[1] \o sep \o Join(Tail(parts), sep)

Digit == <<"0","1","2","3","4","5","6","7","8","9">>

\* Template interpolation of a number: its decimal digits, one character each.
RECURSIVE NumStr(_)
NumStr(n) ==
  IF n < 10 THEN <<Digit[n + 1]>>
  ELSE NumStr(n \div 10) \o <<Digit[(n % 10) + 1]>>

\* ------------------------------------------------- JavaScript values ----
Undef == [t |-> "undef"]
JNull == [t |-> "null"]
JStr(s) == [t |-> "str", s |-> s]
\* the number 5
JNum == [t |-> "num"]
JArr(v) == [t |-> "arr", v |-> v]

\* ------------------------------------------------------------- inputs ----
Methods == {"POST", "GET", "OPTIONS"}

QueryText == <<"O","A","?">>

\* What body.query may hold.
QueryVals ==
  { Undef, JStr(<<>>), JStr(<<" ">>), JStr(QueryText),
    JStr(<<" ">> \o QueryText \o <<" ">>), JNum }

\* What a JSON body decodes to.
BodyVals == {JNull} \cup { [t |-> "obj", query |-> q] : q \in QueryVals }

\* The raw request body: nothing, text that is not JSON, or JSON text.
RawBodies ==
  { [k |-> "empty", val |-> Undef], [k |-> "invalid", val |-> Undef] }
    \cup { [k |-> "json", val |-> b] : b \in BodyVals }

\* The environment: which of the required values are set.
Envs ==
  [ GX_KEY : BOOLEAN, GX_BUCKET : BOOLEAN, GX_PROJECT : BOOLEAN,
    GX_GROUP : BOOLEAN, OA_KEY : BOOLEAN ]

\* Error bodies of the retrieval backend.
ErrBodies ==
  { <<"I","n","v","a","l","i","d"," ","A","P","I"," ","K","e","y">>,
    <<"U","N","A","U","T","H","O","R","I","Z","E","D">>,
    <<"b","a","d"," ","a","u","t","h","o","r","i","z","a","t","i","o","n">>,
    <<"r","a","t","e"," ","l","i","m","i","t"," ","e","x","c","e","e","d","e","d">>,
    <<"b","u","c","k","e","t","I","d"," ","i","s"," ","r","e","q","u","i","r","e","d">>,
    <<>> }

\* One retrieved passage: the fields the handlers read.  An absent string
\* field is the empty string (both are falsy), an absent page is -1.
Passage(text, title, fileName, sourceUrl, multimodalUrl, pageNumber, page) ==
  [ text |-> text, suggestedText |-> <<>>, chunk |-> <<>>,
    title |-> title, sdFileName |-> <<>>, fileName |-> fileName,
    sourceUrl |-> sourceUrl, url |-> <<>>, multimodalUrl |-> multimodalUrl,
    pageNumber |-> pageNumber, page |-> page,
    score |-> IF text = <<>> THEN 0 ELSE 90,
    documentId |-> Len(text) + 1, documentTitle |-> <<>> ]

NoPage == -1

\* The longest excerpt kept whole.
ExcerptMax == 150

\* A text of n characters.
Filler(n) == [k \in 1..n |-> "x"]

\* The i-th passage the backend returns: four shapes in turn, so that every
\* branch of the title, url and page derivations is taken; the third passage
\* is one character longer than an excerpt may be, the seventh as long.
PassageAt(i) ==
  CASE i % 4 = 1 ->
         Passage(<<"j","o","i","n","t">>, <<"I","n","t","r","o",".","p","d","f">>,
                 <<>>, <<"https://h", "/", "d", "/", "i", ".", "p", "d", "f">>,
                 <<>>, 3, NoPage)
    [] i % 4 = 2 ->
         Passage(<<"k","n","e","e">>, <<>>,
                 <<"G","u","i","d","e",".","d","o","c","x">>, <<>>,
                 <<"https://m", "/", "g">>, NoPage, 7)
    [] i % 4 = 3 ->
         Passage(IF i = 3 THEN Filler(ExcerptMax + 1)
                 ELSE IF i = 7 THEN Filler(ExcerptMax)
                 ELSE <<"h","i","p">>,
                 <<>>, <<>>,
                 <<"https://h", "/", "d", "/", "x">>, <<>>, NoPage, NoPage)
    [] OTHER ->
         Passage(<<>>, <<>>, <<>>, <<>>, <<>>, 0, 5)

MkResults(n) == [i \in 1..n |-> PassageAt(i)]

\* Two passages of which the first cites the second: its title and its text
\* hold the literal [2].
CitingResults ==
  << [PassageAt(1) EXCEPT !.title = <<"R","e","f"," ","[","2","]">>,
                          !.text = <<"s","e","e"," ","[","2","]">>],
     PassageAt(2) >>

PassageCounts == {0, 1, 2, MaxPassages}

CtxText == <<"c","t","x",":"," ","[","1","]"," ","j","o","i","n","t">>

\* gxData.search: absent, or an object with results and text.
Search(results, text) == [t |-> "obj", results |-> results, text |-> text]

\* The decoded body of a successful retrieval reply.
Envelope(search, results) == [t |-> "obj", search |-> search, results |-> results]

JObj == [t |-> "obj"]
Unparseable == [t |-> "bad"]

GxDatas ==
  { Envelope(Search(JArr(MkResults(n)), txt), Undef) :
      n \in PassageCounts, txt \in {<<>>, CtxText} }
    \cup { Envelope(Search(JArr(CitingResults), <<>>), Undef),
           Envelope(Undef, JArr(MkResults(2))),
           Envelope(Undef, Undef),
           Envelope(Search(Undef, <<>>), Undef),
           Envelope(Search(JObj, <<>>), Undef),
           Unparseable }

FailStatus == 401

\* What one retrieval attempt resolves to.
GxReplies ==
  { [ok |-> TRUE, status |-> 200, text |-> <<>>, json |-> d] : d \in GxDatas }
    \cup { [ok |-> FALSE, status |-> FailStatus, text |-> b, json |-> Unparseable] :
             b \in ErrBodies }

Answer1 == <<"I","t"," ","i","s"," ","[","1","]","[","2","]",".">>
Answer2 == <<" ","s","e","e"," ","[","3","]"," ">>

\* choices[0].message.content of a successful generation reply
\* an answer that cites a source twice and numbers that may be no source
Answer3 == <<"[","1","]"," ","a","s"," ","[","7","]","[","1","]"," ","[","1","2","]">>
Contents == { Undef, JStr(<<>>), JStr(Answer1), JStr(Answer2), JStr(Answer3), JNum }

OaDatas == { [t |-> "obj", content |-> c] : c \in Contents } \cup { Unparseable }

OaErrBodies == { <<"q","u","o","t","a">>, <<>> }

\* An error body of the generation backend that is JSON text.
OaErrJson == <<"{", "\"error\"", ":", "\"quota\"", "}">>

\* What the generation call resolves to.
OaReplies ==
  { [ok |-> TRUE, text |-> <<>>, json |-> d] : d \in OaDatas }
    \cup { [ok |-> FALSE, text |-> b, json |-> Unparseable] : b \in OaErrBodies }
    \cup { [ok |-> FALSE, text |-> OaErrJson, json |-> [t |-> "obj", content |-> Undef]] }

\* ---------------------------------------------------------- responses ----
NoBody == [none |-> TRUE]

\* res.status(code).json(body)
JsonResp(code, body) == [status |-> code, json |-> TRUE, body |-> body]

\* res.status(code).end()
EndResp(code) == [status |-> code, json |-> FALSE, body |-> NoBody]

ErrResp(code, msg) == JsonResp(code, [error |-> msg])

\* The messages of the exceptions the runtime throws.
TypeErrorMsg == <<"TypeError">>
SyntaxErrorMsg == <<"SyntaxError: Unexpected token">>

\* --------------------------------------------------- handler outcomes ----
\* What one synchronous stretch of a handler (from its start, or from the
\* resolution of an await, up to the next await or the return) does: the
\* responses it sends, the outbound calls it issues, where it stops, the
\* pipeline steps it enters and the locals it leaves.
Out(resps, calls, pc, ph, loc) ==
  [resps |-> resps, calls |-> calls, pc |-> pc, ph |-> ph, loc |-> loc]

Loc0 ==
  [ query |-> <<>>, att |-> 0, lastText |-> <<>>, gxData |-> Undef,
    results |-> <<>>, sources |-> <<>>, context |-> <<>> ]

\* An outbound call: the backend, the number of the attempt, and the
\* attempt's endpoint and authentication style.
Call(to, n, url, auth) == [to |-> to, n |-> n, url |-> url, auth |-> auth]

OaCall == Call("oa", 1, "api.openai.com/v1/chat/completions", "Bearer")

\* A stretch that ends the request with one response.
Reply(resp, ph, loc) == Out(<<resp>>, <<>>, "done", ph, loc)

\* The top-level catch of a handler: err.message || "Server error".
Caught(msg, loc) ==
  Reply(ErrResp(500, OrStr(msg, <<"Server error">>)), <<"Error">>, loc)

\* ------------------------------------------------ shared derivations ----
\* A slip: the query is not trimmed.
TrimmedQuery_NoTrim(body) ==
  IF body.t # "obj" THEN [ok |-> FALSE, s |-> <<>>]
  ELSE IF body.query.t = "undef" THEN [ok |-> TRUE, s |-> <<>>]
  ELSE IF body.query.t = "str" THEN [ok |-> TRUE, s |-> body.query.s]
  ELSE [ok |-> FALSE, s |-> <<>>]

\* (body.query || "").trim(): ok is FALSE where the expression throws.
TrimmedQuery(body) ==
  IF body.t # "obj" THEN [ok |-> FALSE, s |-> <<>>]
  ELSE IF body.query.t = "undef" THEN [ok |-> TRUE, s |-> <<>>]
  ELSE IF body.query.t = "str" THEN [ok |-> TRUE, s |-> Trim(body.query.s)]
  ELSE [ok |-> FALSE, s |-> <<>>]

\* raw ? JSON.parse(raw) : {}
ParseRaw(raw) ==
  IF raw.k = "empty" THEN [ok |-> TRUE, val |-> [t |-> "obj", query |-> Undef]]
  ELSE IF raw.k = "invalid" THEN [ok |-> FALSE, val |-> Undef]
  ELSE [ok |-> TRUE, val |-> raw.val]

\* gxData?.search?.results || []
SearchResults(d) ==
  IF d.search.t = "obj" /\ d.search.results.t # "undef"
  THEN d.search.results ELSE JArr(<<>>)

\* gxData?.search?.text || ""
SearchText(d) == IF d.search.t = "obj" THEN d.search.text ELSE <<>>

\* results.length === 0
LengthIsZero(results) == results.t = "arr" /\ results.v = <<>>

\* results.slice(0, 10)
SourceCap == 10
Slice10(v) == SubSeq(v, 1, IF Len(v) < SourceCap THEN Len(v) ELSE SourceCap)

\* a ?? b ?? null on page numbers
PageOf(r) == IF r.pageNumber # NoPage THEN r.pageNumber ELSE r.page

\* chunkText.length > 150 ? chunkText.substring(0, 150) + "..." : chunkText
Preview(chunkText) ==
  IF Len(chunkText) > ExcerptMax
  THEN SubSeq(chunkText, 1, ExcerptMax) \o <<".", ".", ".">>
  ELSE chunkText

SourceN(n) == <<"S","o","u","r","c","e"," ">> \o NumStr(n)

\* `[${i + 1}] ${r.suggestedText || r.text || ""}`
ContextLine(r, i) ==
  <<"[">> \o NumStr(i) \o <<"]", " ">> \o OrStr(r.suggestedText, r.text)

\* results.map(ContextLine).join("\n\n")
SynthContext(v) ==
  Join([i \in 1..Len(v) |-> ContextLine(v[i], i)], <<"\n", "\n">>)

\* ------------------------------------------------ citation rendering ----
\* String.prototype.replace with a global pattern of literal characters:
\* every non-overlapping occurrence of pat, left to right.
Matches(s, pat) ==
  { i \in 1..(Len(s) - Len(pat) + 1) : SubSeq(s, i, i + Len(pat) - 1) = pat }

RECURSIVE ReplaceAll(_, _, _)
ReplaceAll(s, pat, rep) ==
  IF Matches(s, pat) = {} THEN s
  ELSE LET i == CHOOSE m \in Matches(s, pat) : \A k \in Matches(s, pat) : m <= k
       IN  SubSeq(s, 1, i - 1) \o rep
             \o ReplaceAll(SubSeq(s, i + Len(pat), Len(s)), pat, rep)

\* A slip: the pattern is left open, without its closing bracket.
Marker_Open(n) == <<"[">> \o NumStr(n)

\* The text the pattern new RegExp(`\\[${n}\\]`, 'g') matches.
Marker(n) == <<"[">> \o NumStr(n) \o <<"]">>

\* source.page ? ` (p. ${source.page})` : ''
PageInfo(page) ==
  IF page # NoPage /\ page # 0
  THEN <<" ", "(", "p", ".", " ">> \o NumStr(page) \o <<")">>
  ELSE <<>>

\* sourcesArray.forEach(source => text = text.replace(marker, link)), from
\* the i-th source on; links[k] is the link built for the k-th source.
RECURSIVE SubstituteFrom(_, _, _, _)
SubstituteFrom(links, text, sourcesArray, i) ==
  IF i > Len(sourcesArray) THEN text
  ELSE SubstituteFrom(links,
         ReplaceAll(text, Marker(sourcesArray[i].number), links[i]),
         sourcesArray, i + 1)

TooltipContent(source) ==
  source.title \o PageInfo(source.page)
    \o (IF source.chunk_text # <<>>
        THEN <<"\n", "\n", "Excerpt: ", "\"">> \o source.chunk_text \o <<"\"">>
        ELSE <<>>)

ClickableLink(source) ==
  <<"<a href=\"">> \o source.url \o <<"\" target=\"_blank\" title=\"">>
    \o ReplaceAll(TooltipContent(source), <<"\"">>, <<"&quot;">>)
    \o <<"\" style=\"color: #0066cc; text-decoration: underline; font-weight: 500;\">">>
    \o Marker(source.number) \o <<"</a>">>

createClickableCitations(text, sourcesArray) ==
  SubstituteFrom([k \in 1..Len(sourcesArray) |-> ClickableLink(sourcesArray[k])],
                 text, sourcesArray, 1)

\* A slip: the link is given the title of the Source as its target.
MarkdownLink_Title(source) ==
  <<"[", "\\", "[">> \o NumStr(source.number) \o <<"\\", "]", "]", "(">>
    \o source.title \o <<")">>

\* `[\\[${source.number}\\]](${source.url})`
MarkdownLink(source) ==
  <<"[", "\\", "[">> \o NumStr(source.number) \o <<"\\", "]", "]", "(">>
    \o source.url \o <<")">>

createMarkdownCitations(text, sourcesArray) ==
  SubstituteFrom([k \in 1..Len(sourcesArray) |-> MarkdownLink(sourcesArray[k])],
                 text, sourcesArray, 1)

\* title.replace(/\.pdf$|\.docx?$/i, ''): the extension at the end, if any
StripExt(title) ==
  IF EndsIn(ToLower(title), <<".","d","o","c","x">>)
  THEN SubSeq(title, 1, Len(title) - 5)
  ELSE IF EndsIn(ToLower(title), <<".","p","d","f">>)
            \/ EndsIn(ToLower(title), <<".","d","o","c">>)
       THEN SubSeq(title, 1, Len(title) - 4)
       ELSE title

\* .replace(/%2C/g, ',').replace(/\+/g, ' ').replace(/_/g, ' ')
cleanTitle(title) ==
  ReplaceAll(ReplaceAll(ReplaceAll(StripExt(title), <<"%","2","C">>, <<",">>),
                        <<"+">>, <<" ">>),
             <<"_">>, <<" ">>)

NoPreview == <<"No preview available">>

\* `${cleanTitle}${pageInfo}\n\n"${source.chunk_text || 'No preview available'}"`
tooltipText(source) ==
  cleanTitle(source.title) \o PageInfo(source.page) \o <<"\n", "\n", "\"">>
    \o OrStr(source.chunk_text, NoPreview) \o <<"\"">>

\* `[${source.number}](${source.url} "${tooltipText.replace(/"/g, '\'')}")`
hoverLink(source) ==
  Marker(source.number) \o <<"(">> \o source.url \o <<" ", "\"">>
    \o ReplaceAll(tooltipText(source), <<"\"">>, <<"'">>) \o <<"\"", ")">>

createHoverCitations(text, sourcesArray) ==
  SubstituteFrom([k \in 1..Len(sourcesArray) |-> hoverLink(sourcesArray[k])],
                 text, sourcesArray, 1)

TitleMax == 30

\* `[[${n}: ${cleanTitle.substring(0, 30)}${cleanTitle.length > 30 ? '...' : ''}
\*  ${pageInfo}]](${source.url})`
cleanCitation(source) ==
  LET t == cleanTitle(source.title)
  IN  <<"[", "[">> \o NumStr(source.number) \o <<":", " ">>
        \o (IF Len(t) > TitleMax
            THEN SubSeq(t, 1, TitleMax) \o <<".", ".", ".">>
            ELSE t)
        \o PageInfo(source.page) \o <<"]", "]", "(">> \o source.url \o <<")">>

\* A slip: the first Source is skipped.
createCleanInlineCitations_SkipFirst(text, sourcesArray) ==
  SubstituteFrom([k \in 1..Len(sourcesArray) |-> cleanCitation(sourcesArray[k])],
                 text, sourcesArray, 2)

createCleanInlineCitations(text, sourcesArray) ==
  SubstituteFrom([k \in 1..Len(sourcesArray) |-> cleanCitation(sourcesArray[k])],
                 text, sourcesArray, 1)

\* The anchor of createHTMLTooltips, written on one line, with the tooltip
\* of the hover link and its quotation marks escaped.
htmlTooltip(source) ==
  <<"<a href=\"">> \o source.url \o <<"\" target=\"_blank\" title=\"">>
    \o ReplaceAll(tooltipText(source), <<"\"">>, <<"&quot;">>)
    \o <<"\" style=\"color: #0066cc; text-decoration: underline; font-weight: bold;\">">>
    \o Marker(source.number) \o <<"</a>">>

createHTMLTooltips(text, sourcesArray) ==
  SubstituteFrom([k \in 1..Len(sourcesArray) |-> htmlTooltip(sourcesArray[k])],
                 text, sourcesArray, 1)

ChunkInfoMd(s) ==
  IF s.chunk_text # <<>>
  THEN <<"\n", "   Excerpt: ", "\"">> \o s.chunk_text \o <<"\"">>
  ELSE <<>>

\* `[${s.number}]: ${s.url || ""} "${s.title || ""}"${pageInfo}${chunkInfo}`
SourceLineMd(s) ==
  Marker(s.number) \o <<":", " ">> \o s.url \o <<" ", "\"">> \o s.title \o <<"\"">>
    \o PageInfo(s.page) \o ChunkInfoMd(s)

sources_md(sources) ==
  Join([i \in 1..Len(sources) |-> SourceLineMd(sources[i])], <<"\n">>)

SourceLineHtml(s) ==
  <<"<strong>">> \o Marker(s.number) \o <<":", "</strong> <a href=\"">> \o s.url
    \o <<"\" target=\"_blank\">">> \o s.title \o <<"</a>">> \o PageInfo(s.page)
    \o (IF s.chunk_text # <<>>
        THEN <<"<br><em>Excerpt: ", "\"">> \o s.chunk_text \o <<"\"", "</em>">>
        ELSE <<>>)

sources_html(sources) ==
  Join([i \in 1..Len(sources) |-> SourceLineHtml(sources[i])], <<"<br><br>">>)

SourceLineMdLink(s) ==
  <<"**">> \o Marker(s.number) \o <<":", "**", " ", "[">> \o s.title \o <<"]", "(">>
    \o s.url \o <<")">> \o PageInfo(s.page) \o ChunkInfoMd(s)

sources_markdown_links(sources) ==
  Join([i \in 1..Len(sources) |-> SourceLineMdLink(sources[i])], <<"\n", "\n">>)

SourcesHeadMd == <<"\n", "\n", "---", "\n", "**Sources**", "\n">>
SourcesHeadHtml == <<"<br><br><hr><strong>Sources</strong><br><br>">>

\* ------------------------------------------- the handler of api/chat.js ----
MsgMethod == <<"Method not allowed">>
MsgInvalidJson == <<"Invalid JSON body">>
MsgMissingQuery == <<"Missing 'query' string">>
GxFailed == <<"GroundX search failed: ">>
OaFailed == <<"OpenAI call failed: ">>
NoAnswer == <<"N","o"," ","a","n","s","w","e","r",".">>

\* `I couldn't find relevant passages for "${query}".`
Apology(query) ==
  <<"I couldn't find relevant passages for ", "\"">> \o query \o <<"\"", ".">>

\* A slip: the preflight is not set apart and goes through the method check.
chat_Entry_NoPreflight(method) ==
  IF method # "POST"
  THEN Reply(ErrResp(405, MsgMethod), <<"Validating", "Error">>, Loc0)
  ELSE Out(<<>>, <<>>, "read", <<"Validating">>, Loc0)

\* From the entry of the handler to the reading of the body.
chat_Entry(method) ==
  IF method = "OPTIONS" THEN Reply(EndResp(200), <<>>, Loc0)
  ELSE IF method # "POST"
       THEN Reply(ErrResp(405, MsgMethod), <<"Validating", "Error">>, Loc0)
       ELSE Out(<<>>, <<>>, "read", <<"Validating">>, Loc0)

\* A slip: the generation key is not checked.
chat_EnvError_NoOaKey(env) ==
  IF ~env.GX_KEY THEN <<"Missing GROUNDX_API_KEY">>
  ELSE IF ~env.GX_BUCKET THEN <<"Missing GROUNDX_BUCKET_ID">>
  ELSE <<>>

\* The three checks of the environment, in the order of the code.
chat_EnvError(env) ==
  IF ~env.GX_KEY THEN <<"Missing GROUNDX_API_KEY">>
  ELSE IF ~env.GX_BUCKET THEN <<"Missing GROUNDX_BUCKET_ID">>
  ELSE IF ~env.OA_KEY THEN <<"Missing OPENAI_API_KEY">>
  ELSE <<>>

chat_GxCall == Call("gx", 1, "api.groundx.ai/api/v1/search/:id", "X-API-Key")

\* A slip: the configuration error is reported without returning.
chat_Validate_NoReturn(raw, env) ==
  LET parsed == ParseRaw(raw)
      q == TrimmedQuery(parsed.val)
  IN  IF ~parsed.ok THEN Reply(ErrResp(400, MsgInvalidJson), <<"Error">>, Loc0)
      ELSE IF ~q.ok THEN Caught(TypeErrorMsg, Loc0)
      ELSE IF q.s = <<>> THEN Reply(ErrResp(400, MsgMissingQuery), <<"Error">>, Loc0)
      ELSE IF chat_EnvError(env) # <<>>
           THEN Out(<<ErrResp(500, chat_EnvError(env))>>, <<chat_GxCall>>, "gx",
                    <<"Error", "Retrieving">>, [Loc0 EXCEPT !.query = q.s])
           ELSE Out(<<>>, <<chat_GxCall>>, "gx", <<"Retrieving">>,
                    [Loc0 EXCEPT !.query = q.s])

\* A slip: the generation call is issued together with the retrieval call.
chat_Validate_Eager(raw, env) ==
  LET parsed == ParseRaw(raw)
      q == TrimmedQuery(parsed.val)
  IN  IF ~parsed.ok THEN Reply(ErrResp(400, MsgInvalidJson), <<"Error">>, Loc0)
      ELSE IF ~q.ok THEN Caught(TypeErrorMsg, Loc0)
      ELSE IF q.s = <<>> THEN Reply(ErrResp(400, MsgMissingQuery), <<"Error">>, Loc0)
      ELSE IF chat_EnvError(env) # <<>>
           THEN Reply(ErrResp(500, chat_EnvError(env)), <<"Error">>, Loc0)
           ELSE Out(<<>>, <<chat_GxCall, OaCall>>, "gx", <<"Retrieving">>,
                    [Loc0 EXCEPT !.query = q.s])

\* From the body read to the retrieval call.
chat_Validate(raw, env) ==
  LET parsed == ParseRaw(raw)
      q == TrimmedQuery(parsed.val)
  IN  IF ~parsed.ok THEN Reply(ErrResp(400, MsgInvalidJson), <<"Error">>, Loc0)
      ELSE IF ~q.ok THEN Caught(TypeErrorMsg, Loc0)
      ELSE IF q.s = <<>> THEN Reply(ErrResp(400, MsgMissingQuery), <<"Error">>, Loc0)
      ELSE IF chat_EnvError(env) # <<>>
           THEN Reply(ErrResp(500, chat_EnvError(env)), <<"Error">>, Loc0)
           ELSE Out(<<>>, <<chat_GxCall>>, "gx", <<"Retrieving">>,
                    [Loc0 EXCEPT !.query = q.s])

chat_Source(r, i) ==
  [ number |-> i,
    title |-> OrStr(r.title, OrStr(r.fileName, SourceN(i))),
    url |-> OrStr(r.sourceUrl, r.multimodalUrl),
    page |-> PageOf(r),
    chunk_text |-> Preview(OrStr(r.suggestedText, r.text)),
    confidence |-> IF r.score # 0 THEN r.score ELSE NoPage ]

\* results.slice(0, 10).map(...)
chat_Sources(v) == [i \in 1..Len(Slice10(v)) |-> chat_Source(v[i], i)]

\* The empty-evidence response.
chat_Empty(query) ==
  JsonResp(200, [data |-> [ answer_md |-> Apology(query),
                            answer_html |-> Apology(query),
                            sources |-> <<>> ]])

\* The empty-evidence short-circuit.
chat_ShortCircuit(loc, r) ==
  Reply(chat_Empty(loc.query), <<"ShortCircuitEmpty">>,
        [loc EXCEPT !.gxData = r.json])

\* A slip: the context is always synthesized from the passages.
chat_Context_Synth(llmText, results) == SynthContext(results)

\* llmText || results.map(...).join("\n\n")
chat_Context(llmText, results) == OrStr(llmText, SynthContext(results))

\* `${s.number}. ${s.title}${s.page ? ` (p.${s.page})` : ""}
\*  ${s.url ? ` {U+2014} ${s.url}` : ""}`, the dash written as its code point
chat_PromptLine(s) ==
  NumStr(s.number) \o <<".", " ">> \o s.title
    \o (IF s.page # NoPage /\ s.page # 0
        THEN <<" ", "(", "p", ".">> \o NumStr(s.page) \o <<")">>
        ELSE <<>>)
    \o (IF s.url # <<>> THEN <<" {U+2014} ">> \o s.url ELSE <<>>)

\* The user message of the generation call.
chat_Prompt(query, context, sources) ==
  <<"Question: ">> \o query \o <<"\n", "\n", "Context:", "\n">> \o context
    \o <<"\n", "\n", "Numbered sources you may cite:", "\n">>
    \o Join([i \in 1..Len(sources) |-> chat_PromptLine(sources[i])], <<"\n">>)

\* The generation call with its user message.
chat_OaCall(query, context, sources) ==
  [ to |-> OaCall.to, n |-> OaCall.n, url |-> OaCall.url, auth |-> OaCall.auth,
    content |-> chat_Prompt(query, context, sources) ]

\* Sources and context built, the generation call issued.
chat_Assemble(loc, r, results, llmText) ==
  Out(<<>>,
      <<chat_OaCall(loc.query, chat_Context(llmText, results), chat_Sources(results))>>,
      "oa", <<"Assembling", "Generating">>,
      [loc EXCEPT !.gxData = r.json, !.results = results,
                  !.sources = chat_Sources(results),
                  !.context = chat_Context(llmText, results)])

\* A slip: the canned answer is sent without returning.
chat_AfterSearch_NoReturn(loc, r) ==
  IF ~r.ok THEN Reply(ErrResp(502, GxFailed \o r.text), <<"Error">>, loc)
  ELSE IF r.json.t = "bad" THEN Caught(SyntaxErrorMsg, loc)
  ELSE LET results == SearchResults(r.json)
           llmText == SearchText(r.json)
       IN  IF llmText = <<>> /\ LengthIsZero(results)
           THEN [chat_Assemble(loc, r, results.v, llmText)
                   EXCEPT !.resps = <<chat_Empty(loc.query)>>]
           ELSE IF results.t # "arr"
                THEN Caught(TypeErrorMsg, [loc EXCEPT !.gxData = r.json])
           ELSE chat_Assemble(loc, r, results.v, llmText)

\* From the resolution of the retrieval call to the generation call.
chat_AfterSearch(loc, r) ==
  IF ~r.ok THEN Reply(ErrResp(502, GxFailed \o r.text), <<"Error">>, loc)
  ELSE IF r.json.t = "bad" THEN Caught(SyntaxErrorMsg, loc)
  ELSE LET results == SearchResults(r.json)
           llmText == SearchText(r.json)
       IN  IF llmText = <<>> /\ LengthIsZero(results)
           THEN chat_ShortCircuit(loc, r)
           ELSE IF results.t # "arr"
                THEN Caught(TypeErrorMsg, [loc EXCEPT !.gxData = r.json])
           ELSE chat_Assemble(loc, r, results.v, llmText)

\* The success response.
chat_Success(answer, sources) ==
  JsonResp(200, [data |->
    [ answer_md |-> answer \o SourcesHeadMd \o sources_md(sources),
      answer_html |-> createClickableCitations(answer, sources)
                        \o SourcesHeadHtml \o sources_html(sources),
      answer_markdown_links |-> createMarkdownCitations(answer, sources)
                        \o SourcesHeadMd \o sources_markdown_links(sources),
      sources |-> sources ]])

\* oaData?.choices?.[0]?.message?.content?.trim() || "No answer.":
\* ok is FALSE where the expression throws.
AnswerOf(json) ==
  IF json.content.t = "undef" THEN [ok |-> TRUE, s |-> NoAnswer]
  ELSE IF json.content.t = "str"
       THEN [ok |-> TRUE, s |-> OrStr(Trim(json.content.s), NoAnswer)]
       ELSE [ok |-> FALSE, s |-> <<>>]

\* From the resolution of the generation call to the response.
chat_AfterGen(loc, r) ==
  IF ~r.ok THEN Reply(ErrResp(502, OaFailed \o r.text), <<"Error">>, loc)
  ELSE IF r.json.t = "bad" THEN Caught(SyntaxErrorMsg, loc)
  ELSE IF ~AnswerOf(r.json).ok THEN Caught(TypeErrorMsg, loc)
  ELSE Reply(chat_Success(AnswerOf(r.json).s, loc.sources),
             <<"Rendering", "Responding">>, loc)

\* ---------------------- the handler of api/debug.js (gxSearch, 5 tries) ----
\* /api key|unauthorized|authorization/i.test(text)
AuthSignature(text) ==
  \/ Contains(ToLower(text), <<"a","p","i"," ","k","e","y">>)
  \/ Contains(ToLower(text), <<"u","n","a","u","t","h","o","r","i","z","e","d">>)
  \/ Contains(ToLower(text), <<"a","u","t","h","o","r","i","z","a","t","i","o","n">>)

\* The attempt matrix of gxSearch.
tries ==
  << [url |-> "api.groundx.ai/api/v1/search", auth |-> "Bearer"],
     [url |-> "api.groundx.ai/api/v1/search", auth |-> "x-api-key"],
     [url |-> "api.eyelevel.ai/api/v1/search", auth |-> "Bearer"],
     [url |-> "api.eyelevel.ai/api/v1/search", auth |-> "x-api-key"],
     [url |-> "api.groundx.ai/api/v1/search", auth |-> "Token"] >>

debug_GxCall(n) == Call("gx", n, tries[n].url, tries[n].auth)

\* `${v}` of a value that is a string or the number 5
Interpolate(v) ==
  IF v.t = "str" THEN v.s
  ELSE IF v.t = "num" THEN <<"5">>
  ELSE IF v.t = "null" THEN <<"null">>
  ELSE <<"undefined">>

\* !v of a value that is undefined, null, a string or the number 5
Falsy(v) == v.t \in {"undef", "null"} \/ (v.t = "str" /\ v.s = <<>>)

\* `I couldn't find relevant passages for "${query}".` written with the
\* typographic apostrophe U+2019 and quotation marks U+201C, U+201D
ApologyCurly(query) ==
  <<"I couldn{U+2019}t find relevant passages for ", "{U+201C}">> \o query
    \o <<"{U+201D}", ".">>

\* The whole of the handler up to the first try of gxSearch.
debug_Entry(method, body, env) ==
  IF method # "POST"
  THEN Reply(ErrResp(405, MsgMethod), <<"Validating", "Error">>, Loc0)
  ELSE IF body.t # "obj" THEN Caught(TypeErrorMsg, Loc0)
  ELSE IF Falsy(body.query)
       THEN Reply(ErrResp(400, <<"Missing 'query' in request body">>),
                  <<"Validating", "Error">>, Loc0)
  ELSE IF ~env.GX_KEY \/ ~env.GX_BUCKET \/ ~env.OA_KEY
       THEN Reply(ErrResp(500, <<"Missing one or more required environment variables">>),
                  <<"Validating", "Error">>, Loc0)
  ELSE Out(<<>>, <<debug_GxCall(1)>>, "gx", <<"Validating", "Retrieving">>,
           [Loc0 EXCEPT !.query = Interpolate(body.query), !.att = 1])

\* gxData?.search?.results || gxData?.results || []
debug_Results(d) ==
  IF d.search.t = "obj" /\ d.search.results.t # "undef" THEN d.search.results
  ELSE IF d.results.t # "undef" THEN d.results
  ELSE JArr(<<>>)

\* r.text || r.chunk || ""
debug_Text(r) == OrStr(r.text, r.chunk)

debug_Context(v) ==
  Join([i \in 1..Len(v) |->
          <<"S","o","u","r","c","e"," ">> \o NumStr(i) \o <<":", " ">>
            \o debug_Text(v[i])],
       <<"\n", "\n">>)

\* A slip: the loop does not advance and the same try is issued again.
debug_NextTry_Same(loc, text) ==
  Out(<<>>, <<debug_GxCall(loc.att)>>, "gx", <<>>,
      [loc EXCEPT !.lastText = text])

\* The next try of the loop of gxSearch, after a failure with body text.
debug_NextTry(loc, text) ==
  Out(<<>>, <<debug_GxCall(loc.att + 1)>>, "gx", <<>>,
      [loc EXCEPT !.lastText = text, !.att = loc.att + 1])

\* A slip: a reply whose body cannot be parsed is passed over and the next
\* try is made.
debug_OnSuccess_SkipBad(loc, r) ==
  IF r.json.t = "bad"
  THEN IF loc.att < Len(tries) THEN debug_NextTry(loc, loc.lastText)
       ELSE Caught(SyntaxErrorMsg, loc)
  ELSE LET results == debug_Results(r.json)
       IN  IF results.t # "arr" \/ results.v = <<>>
           THEN Reply(JsonResp(200, [answer_md |-> ApologyCurly(loc.query),
                                     sources |-> <<>>]),
                      <<"ShortCircuitEmpty">>,
                      [loc EXCEPT !.gxData = r.json])
           ELSE Out(<<>>, <<OaCall>>, "oa", <<"Assembling", "Generating">>,
                    [loc EXCEPT !.gxData = r.json, !.results = results.v,
                                !.context = debug_Context(results.v)])

\* if (r.ok) return r.json(), and the handler from there to the generation call
debug_OnSuccess(loc, r) ==
  IF r.json.t = "bad" THEN Caught(SyntaxErrorMsg, loc)
  ELSE LET results == debug_Results(r.json)
       IN  IF results.t # "arr" \/ results.v = <<>>
           THEN Reply(JsonResp(200, [answer_md |-> ApologyCurly(loc.query),
                                     sources |-> <<>>]),
                      <<"ShortCircuitEmpty">>,
                      [loc EXCEPT !.gxData = r.json])
           ELSE Out(<<>>, <<OaCall>>, "oa", <<"Assembling", "Generating">>,
                    [loc EXCEPT !.gxData = r.json, !.results = results.v,
                                !.context = debug_Context(results.v)])

\* A slip: the classification of the failure is left out.
debug_OnFailure_Unclassified(loc, r) ==
  IF loc.att < Len(tries) THEN debug_NextTry(loc, r.text)
  ELSE Caught(<<"GroundX auth failed after retries: ">> \o r.text,
              [loc EXCEPT !.lastText = r.text])

\* A slip: lastText is read before it is assigned.
debug_OnFailure_StaleText(loc, r) ==
  IF ~AuthSignature(r.text)
  THEN Caught(GxFailed \o r.text, [loc EXCEPT !.lastText = r.text])
  ELSE IF loc.att < Len(tries) THEN debug_NextTry(loc, r.text)
  ELSE Caught(<<"GroundX auth failed after retries: ">> \o loc.lastText,
              [loc EXCEPT !.lastText = r.text])

\* lastText = await r.text(), the test of the signature, the end of the loop
debug_OnFailure(loc, r) ==
  IF ~AuthSignature(r.text)
  THEN Caught(GxFailed \o r.text, [loc EXCEPT !.lastText = r.text])
  ELSE IF loc.att < Len(tries) THEN debug_NextTry(loc, r.text)
  ELSE Caught(<<"GroundX auth failed after retries: ">> \o r.text,
              [loc EXCEPT !.lastText = r.text])

\* A slip: the loop does not return on success.
debug_AfterSearch_NoReturn(loc, r) ==
  IF r.ok /\ loc.att < Len(tries) THEN debug_NextTry(loc, loc.lastText)
  ELSE IF r.ok THEN debug_OnSuccess(loc, r)
  ELSE debug_OnFailure(loc, r)

\* One turn of the loop of gxSearch, from the resolution of try loc.att, and
\* on success the handler up to the generation call.
debug_AfterSearch(loc, r) ==
  IF r.ok THEN debug_OnSuccess(loc, r) ELSE debug_OnFailure(loc, r)

debug_Source(r, i) ==
  [id |-> i, text |-> debug_Text(r), sourceUrl |-> OrStr(r.sourceUrl, r.url)]

debug_Sources(v) == [i \in 1..Len(v) |-> debug_Source(v[i], i)]

\* oaJson.choices?.[0]?.message?.content || ""
debug_Answer(json) ==
  IF Falsy(json.content) THEN <<>> ELSE Interpolate(json.content)

debug_AfterGen(loc, r) ==
  IF ~r.ok THEN Caught(<<"OpenAI API failed: ">> \o r.text, loc)
  ELSE IF r.json.t = "bad" THEN Caught(SyntaxErrorMsg, loc)
  ELSE Reply(JsonResp(200, [answer_md |-> debug_Answer(r.json),
                            sources |-> debug_Sources(loc.results)]),
             <<"Responding">>, loc)

\* ----------- the handler of the X-API-Key / Bearer fallback (trySearch) ----
fb_EnvError(env) ==
  IF ~env.GX_KEY THEN <<"Missing GROUNDX_API_KEY">>
  ELSE IF ~(env.GX_BUCKET \/ env.GX_PROJECT \/ env.GX_GROUP)
       THEN <<"Missing GROUNDX_BUCKET_ID / PROJECT_ID / GROUP_ID">>
  ELSE IF ~env.OA_KEY THEN <<"Missing OPENAI_API_KEY">>
  ELSE <<>>

fb_Entry(method) ==
  IF method # "POST"
  THEN Reply(ErrResp(405, MsgMethod), <<"Validating", "Error">>, Loc0)
  ELSE Out(<<>>, <<>>, "read", <<"Validating">>, Loc0)

\* trySearch(headers): the call it issues
trySearch(n) ==
  Call("gx", n, "api.groundx.ai/api/v1/search/content",
       IF n = 1 THEN "X-API-Key" ELSE "Bearer")

fb_Validate(raw, env) ==
  LET parsed == ParseRaw(raw)
      q == TrimmedQuery(parsed.val)
  IN  IF ~parsed.ok THEN Reply(ErrResp(400, MsgInvalidJson), <<"Error">>, Loc0)
      ELSE IF ~q.ok THEN Caught(TypeErrorMsg, Loc0)
      ELSE IF q.s = <<>> THEN Reply(ErrResp(400, MsgMissingQuery), <<"Error">>, Loc0)
      ELSE IF fb_EnvError(env) # <<>>
           THEN Reply(ErrResp(500, fb_EnvError(env)), <<"Error">>, Loc0)
           ELSE Out(<<>>, <<trySearch(1)>>, "gx", <<"Retrieving">>,
                    [Loc0 EXCEPT !.query = q.s, !.att = 1])

fb_Source(r, i) ==
  [ number |-> i,
    title |-> OrStr(r.title, OrStr(r.fileName, SourceN(i))),
    url |-> OrStr(r.sourceUrl, r.multimodalUrl),
    page |-> PageOf(r) ]

fb_Sources(v) == [i \in 1..Len(Slice10(v)) |-> fb_Source(v[i], i)]

\* `[${s.number}]: ${s.url || ""} "${s.title || ""}"`
SourceLinePlain(s) ==
  Marker(s.number) \o <<":", " ">> \o s.url \o <<" ", "\"">> \o s.title \o <<"\"">>

sources_md_plain(sources) ==
  Join([i \in 1..Len(sources) |-> SourceLinePlain(sources[i])], <<"\n">>)

\* From the resolution of trySearch number loc.att to the next call.
fb_AfterSearch(loc, r) ==
  IF r.ok /\ r.json.t = "bad" THEN Caught(SyntaxErrorMsg, loc)
  ELSE IF loc.att = 1 /\ ~r.ok /\ AuthSignature(r.text)
  THEN Out(<<>>, <<trySearch(2)>>, "gx", <<>>, [loc EXCEPT !.att = 2])
  ELSE IF ~r.ok
  THEN Reply(ErrResp(502, GxFailed \o OrStr(r.text, <<"HTTP ">> \o NumStr(r.status))),
             <<"Error">>, loc)
  ELSE LET results == SearchResults(r.json)
           llmText == SearchText(r.json)
       IN  IF llmText = <<>> /\ LengthIsZero(results)
           THEN Reply(JsonResp(200, [answer_md |-> ApologyCurly(loc.query),
                                     sources |-> <<>>]),
                      <<"ShortCircuitEmpty">>,
                      [loc EXCEPT !.gxData = r.json])
           ELSE IF results.t # "arr" THEN Caught(TypeErrorMsg, [loc EXCEPT !.gxData = r.json])
           ELSE Out(<<>>, <<OaCall>>, "oa", <<"Assembling", "Generating">>,
                    [loc EXCEPT !.gxData = r.json, !.results = results.v,
                                !.sources = fb_Sources(results.v),
                                !.context = OrStr(llmText, SynthContext(results.v))])

\* The success response of the variants that append the plain Sources block.
PlainSuccess(answer, sources) ==
  JsonResp(200, [ answer_md |-> answer \o SourcesHeadMd \o sources_md_plain(sources),
                  sources |-> sources ])

fb_AfterGen(loc, r) ==
  IF ~r.ok THEN Reply(ErrResp(502, OaFailed \o r.text), <<"Error">>, loc)
  ELSE IF r.json.t = "bad" THEN Caught(SyntaxErrorMsg, loc)
  ELSE IF ~AnswerOf(r.json).ok THEN Caught(TypeErrorMsg, loc)
  ELSE Reply(PlainSuccess(AnswerOf(r.json).s, loc.sources),
             <<"Rendering", "Responding">>, loc)

\* ------------- the first handler of the variant file part_000 (Bearer) ----
basic_GxCall == Call("gx", 1, "api.groundx.ai/api/v1/search", "Bearer")

\* The OpenAI client of the SDK: openai.chat.completions.create
SdkOaCall == Call("oa", 1, "openai.chat.completions.create", "sdk")

basic_Entry(method, body) ==
  IF method # "POST" THEN Reply(ErrResp(405, MsgMethod), <<"Validating", "Error">>, Loc0)
  ELSE IF body.t # "obj"
       THEN Reply(ErrResp(500, TypeErrorMsg), <<"Validating", "Error">>, Loc0)
  ELSE IF Falsy(body.query)
       THEN Reply(ErrResp(400, <<"Missing query">>), <<"Validating", "Error">>, Loc0)
  ELSE Out(<<>>, <<basic_GxCall>>, "gx", <<"Validating", "Retrieving">>,
           [Loc0 EXCEPT !.query = Interpolate(body.query), !.att = 1])

\* `[${i + 1}] ${r.text || ""}\nSource: ${r.multimodalUrl || r.fileName}`
basic_Context(v) ==
  Join([i \in 1..Len(v) |->
          <<"[">> \o NumStr(i) \o <<"]", " ">> \o v[i].text \o <<"\n", "Source: ">>
            \o (IF OrStr(v[i].multimodalUrl, v[i].fileName) = <<>>
                THEN <<"undefined">>
                ELSE OrStr(v[i].multimodalUrl, v[i].fileName))],
       <<"\n", "\n">>)

basic_Source(r, i) ==
  [number |-> i, title |-> OrStr(r.fileName, SourceN(i)), url |-> r.multimodalUrl]

basic_Sources(v) == [i \in 1..Len(v) |-> basic_Source(v[i], i)]

basic_AfterSearch(loc, r) ==
  IF ~r.ok THEN Reply(ErrResp(500, GxFailed \o r.text), <<"Error">>, loc)
  ELSE IF r.json.t = "bad" THEN Reply(ErrResp(500, SyntaxErrorMsg), <<"Error">>, loc)
  ELSE LET results == SearchResults(r.json)
       IN  IF LengthIsZero(results)
           THEN Reply(JsonResp(200, [answer_md |-> <<"No relevant results found.">>,
                                     sources |-> <<>>]),
                      <<"ShortCircuitEmpty">>,
                      [loc EXCEPT !.gxData = r.json])
           ELSE IF results.t # "arr"
                THEN Reply(ErrResp(500, TypeErrorMsg), <<"Error">>,
                           [loc EXCEPT !.gxData = r.json])
           ELSE Out(<<>>, <<SdkOaCall>>, "oa", <<"Assembling", "Generating">>,
                    [loc EXCEPT !.gxData = r.json, !.results = results.v,
                                !.context = basic_Context(results.v)])

\* The SDK throws on a failed call, with the upstream text as the message.
basic_AfterGen(loc, r) ==
  IF ~r.ok \/ r.json.t = "bad"
  THEN Reply(ErrResp(500, r.text), <<"Error">>, loc)
  ELSE Reply(PlainSuccess(Interpolate(r.json.content), basic_Sources(loc.results)),
             <<"Rendering", "Responding">>, loc)

\* -------- the second handler of part_000 (GroundX SDK, readJson) ----------
\* A slip: readJson registers no listener for the end of the stream and its
\* promise never settles.
sdk_Entry_Unsettled(method) ==
  IF method = "OPTIONS" THEN Reply(EndResp(204), <<>>, Loc0)
  ELSE IF method # "POST"
       THEN Reply(ErrResp(405, MsgMethod), <<"Validating", "Error">>, Loc0)
       ELSE Out(<<>>, <<>>, "pending", <<"Validating">>, Loc0)

sdk_Entry(method) ==
  IF method = "OPTIONS" THEN Reply(EndResp(204), <<>>, Loc0)
  ELSE IF method # "POST"
       THEN Reply(ErrResp(405, MsgMethod), <<"Validating", "Error">>, Loc0)
       ELSE Out(<<>>, <<>>, "read", <<"Validating">>, Loc0)

\* readJson: JSON.parse(data || "{}"), rejecting where the text is not JSON
readJson(raw) == ParseRaw(raw)

\* pickSearchId: TRUE where it returns an id, FALSE where it throws
pickSearchId(env) == env.GX_BUCKET \/ env.GX_PROJECT \/ env.GX_GROUP

sdk_GxCall == Call("gx", 1, "gx.search.content", "sdk")

sdk_Validate(raw, env) ==
  LET parsed == readJson(raw)
  IN  IF ~parsed.ok THEN Caught(SyntaxErrorMsg, Loc0)
      ELSE IF parsed.val.t # "obj" THEN Caught(TypeErrorMsg, Loc0)
      ELSE IF Falsy(parsed.val.query) \/ parsed.val.query.t # "str"
           THEN Reply(ErrResp(400, MsgMissingQuery), <<"Error">>, Loc0)
      ELSE IF ~pickSearchId(env)
           THEN Caught(<<"Set one of GROUNDX_BUCKET_ID / GROUNDX_PROJECT_ID / GROUNDX_GROUP_ID">>,
                       Loc0)
      ELSE Out(<<>>, <<sdk_GxCall>>, "gx", <<"Retrieving">>,
               [Loc0 EXCEPT !.query = parsed.val.query.s, !.att = 1])

\* new URL(sourceUrl).pathname.split("/").pop(): what follows the last "/"
\* after the origin, which is the first atom of a URL
RECURSIVE LastSegment(_)
LastSegment(url) ==
  IF Len(url) <= 1 THEN <<>>
  ELSE IF url[Len(url)] = "/" THEN <<>>
  ELSE LastSegment(SubSeq(url, 1, Len(url) - 1)) \o <<url[Len(url)]>>

\* toSources(results)
toSource(r, i) ==
  [ n |-> i,
    title |-> OrStr(r.title, OrStr(r.sdFileName,
                IF r.sourceUrl # <<>> THEN LastSegment(r.sourceUrl)
                ELSE <<"Document ">> \o NumStr(r.documentId))),
    url |-> r.sourceUrl,
    page |-> PageOf(r),
    documentId |-> r.documentId ]

toSources(v) == [i \in 1..Len(Slice10(v)) |-> toSource(v[i], i)]

\* Array.isArray(search.results) ? search.results : []
sdk_Results(d) ==
  IF d.search.t = "obj" /\ d.search.results.t = "arr" THEN d.search.results.v ELSE <<>>

sdk_AfterSearch(loc, r) ==
  IF ~r.ok THEN Caught(r.text, loc)
  ELSE IF r.json.t = "bad" THEN Caught(SyntaxErrorMsg, loc)
  ELSE IF SearchText(r.json) = <<>>
       THEN Reply(JsonResp(200, [answer_md |-> ApologyCurly(loc.query),
                                 sources |-> <<>>]),
                  <<"Assembling", "ShortCircuitEmpty">>,
                  [loc EXCEPT !.gxData = r.json])
       ELSE Out(<<>>, <<SdkOaCall>>, "oa", <<"Assembling", "Generating">>,
                [loc EXCEPT !.gxData = r.json, !.results = sdk_Results(r.json),
                            !.sources = toSources(sdk_Results(r.json)),
                            !.context = SearchText(r.json)])

sdk_AfterGen(loc, r) ==
  IF ~r.ok \/ r.json.t = "bad" THEN Caught(r.text, loc)
  ELSE IF ~AnswerOf(r.json).ok THEN Caught(TypeErrorMsg, loc)
  ELSE Reply(JsonResp(200, [answer_md |-> AnswerOf(r.json).s, sources |-> loc.sources]),
             <<"Responding">>, loc)

\* ------------------ the handler of the variant file part_002 (REST) -------
rest_Entry(method) == fb_Entry(method)

rest_Validate(raw, env) ==
  LET parsed == ParseRaw(raw)
      q == TrimmedQuery(parsed.val)
  IN  IF ~parsed.ok THEN Reply(ErrResp(400, MsgInvalidJson), <<"Error">>, Loc0)
      ELSE IF ~q.ok THEN Caught(TypeErrorMsg, Loc0)
      ELSE IF q.s = <<>> THEN Reply(ErrResp(400, MsgMissingQuery), <<"Error">>, Loc0)
      ELSE IF chat_EnvError(env) # <<>>
           THEN Reply(ErrResp(500, chat_EnvError(env)), <<"Error">>, Loc0)
           ELSE Out(<<>>, <<basic_GxCall>>, "gx", <<"Retrieving">>,
                    [Loc0 EXCEPT !.query = q.s, !.att = 1])

\* `[${i + 1}] ${r.text || ""}\nSource: ${multimodalUrl || sourceUrl || fileName || ""}`
rest_Context(v) ==
  Join([i \in 1..Len(v) |->
          <<"[">> \o NumStr(i) \o <<"]", " ">> \o v[i].text \o <<"\n", "Source: ">>
            \o OrStr(v[i].multimodalUrl, OrStr(v[i].sourceUrl, v[i].fileName))],
       <<"\n", "\n">>)

rest_Source(r, i) ==
  [ number |-> i,
    title |-> OrStr(r.title, OrStr(r.fileName, SourceN(i))),
    url |-> OrStr(r.multimodalUrl, r.sourceUrl) ]

rest_Sources(v) == [i \in 1..Len(v) |-> rest_Source(v[i], i)]

rest_AfterSearch(loc, r) ==
  IF ~r.ok THEN Reply(ErrResp(502, GxFailed \o r.text), <<"Error">>, loc)
  ELSE IF r.json.t = "bad" THEN Caught(SyntaxErrorMsg, loc)
  ELSE LET results == SearchResults(r.json)
       IN  IF results.t # "arr" \/ results.v = <<>>
           THEN Reply(JsonResp(200, [answer_md |-> ApologyCurly(loc.query),
                                     sources |-> <<>>]),
                      <<"ShortCircuitEmpty">>,
                      [loc EXCEPT !.gxData = r.json])
           ELSE Out(<<>>, <<OaCall>>, "oa", <<"Assembling", "Generating">>,
                    [loc EXCEPT !.gxData = r.json, !.results = results.v,
                                !.sources = rest_Sources(results.v),
                                !.context = rest_Context(results.v)])

rest_AfterGen(loc, r) == fb_AfterGen(loc, r)

\* ---- the third handler of part_005 (hover and clean-inline citations) ----
clean_Entry(method) == chat_Entry(method)

clean_Validate(raw, env) == chat_Validate(raw, env)

\* The empty-evidence response.
clean_Empty(query) ==
  JsonResp(200, [data |-> [ answer_md |-> Apology(query),
                            answer_html |-> Apology(query),
                            answer_clean_inline |-> Apology(query),
                            answer_hover_citations |-> Apology(query),
                            sources |-> <<>> ]])

clean_AfterSearch(loc, r) ==
  IF ~r.ok THEN Reply(ErrResp(502, GxFailed \o r.text), <<"Error">>, loc)
  ELSE IF r.json.t = "bad" THEN Caught(SyntaxErrorMsg, loc)
  ELSE LET results == SearchResults(r.json)
           llmText == SearchText(r.json)
       IN  IF llmText = <<>> /\ LengthIsZero(results)
           THEN Reply(clean_Empty(loc.query), <<"ShortCircuitEmpty">>,
                      [loc EXCEPT !.gxData = r.json])
           ELSE IF results.t # "arr"
                THEN Caught(TypeErrorMsg, [loc EXCEPT !.gxData = r.json])
           ELSE chat_Assemble(loc, r, results.v, llmText)

\* A slip: the hover encoding is computed from the HTML encoding.
clean_Encodings_Chained(answer, sources) ==
  [ answer_md |-> answer,
    answer_html |-> createClickableCitations(answer, sources),
    answer_hover_citations |->
      createHoverCitations(createClickableCitations(answer, sources), sources),
    answer_clean_inline |-> createCleanInlineCitations(answer, sources) ]

\* The encodings of the answer, each from the answer the backend gave.
clean_Encodings(answer, sources) ==
  [ answer_md |-> answer,
    answer_html |-> createClickableCitations(answer, sources),
    answer_hover_citations |-> createHoverCitations(answer, sources),
    answer_clean_inline |-> createCleanInlineCitations(answer, sources) ]

\* A slip: the Sources block is appended to the clean-inline encoding too.
clean_Success_InlineBlock(answer, sources) ==
  LET e == clean_Encodings(answer, sources)
  IN  JsonResp(200, [data |->
        [ answer_md |-> e.answer_md \o SourcesHeadMd \o sources_md(sources),
          answer_html |-> e.answer_html \o SourcesHeadHtml \o sources_html(sources),
          answer_clean_inline |->
            e.answer_clean_inline \o SourcesHeadMd \o sources_md(sources),
          answer_hover_citations |-> e.answer_hover_citations,
          sources |-> sources ]])

\* The success response.
clean_Success(answer, sources) ==
  LET e == clean_Encodings(answer, sources)
  IN  JsonResp(200, [data |->
        [ answer_md |-> e.answer_md \o SourcesHeadMd \o sources_md(sources),
          answer_html |-> e.answer_html \o SourcesHeadHtml \o sources_html(sources),
          answer_clean_inline |-> e.answer_clean_inline,
          answer_hover_citations |-> e.answer_hover_citations,
          sources |-> sources ]])

clean_AfterGen(loc, r) ==
  IF ~r.ok THEN Reply(ErrResp(502, OaFailed \o r.text), <<"Error">>, loc)
  ELSE IF r.json.t = "bad" THEN Caught(SyntaxErrorMsg, loc)
  ELSE IF ~AnswerOf(r.json).ok THEN Caught(TypeErrorMsg, loc)
  ELSE Reply(clean_Success(AnswerOf(r.json).s, loc.sources),
             <<"Rendering", "Responding">>, loc)

\* ------ the handler of part_003 (hover citations and HTML tooltips) -------
tips_Entry(method) == chat_Entry(method)

tips_Validate(raw, env) == chat_Validate(raw, env)

tips_AfterSearch(loc, r) == clean_AfterSearch(loc, r)

\* The success response.
tips_Success(answer, sources) ==
  JsonResp(200, [data |->
    [ answer_md |-> answer \o SourcesHeadMd \o sources_md(sources),
      answer_html |-> createClickableCitations(answer, sources)
                        \o SourcesHeadHtml \o sources_html(sources),
      answer_hover_citations |-> createHoverCitations(answer, sources),
      answer_html_tooltips |-> createHTMLTooltips(answer, sources),
      sources |-> sources ]])

tips_AfterGen(loc, r) ==
  IF ~r.ok THEN Reply(ErrResp(502, OaFailed \o r.text), <<"Error">>, loc)
  ELSE IF r.json.t = "bad" THEN Caught(SyntaxErrorMsg, loc)
  ELSE IF ~AnswerOf(r.json).ok THEN Caught(TypeErrorMsg, loc)
  ELSE Reply(tips_Success(AnswerOf(r.json).s, loc.sources),
             <<"Rendering", "Responding">>, loc)

\* ------------- the handler of part_004 (no validation, no status test) ----
mini_GxCall == Call("gx", 1, "api.groundx.ai/v1/search", "Bearer")

\* catch (err) { res.status(500).json({ error: err.message }) }
mini_Caught(msg, loc) == Reply(ErrResp(500, msg), <<"Error">>, loc)

\* const { query } = req.body, then the retrieval call
mini_Entry(body) ==
  IF body.t # "obj" THEN mini_Caught(TypeErrorMsg, Loc0)
  ELSE Out(<<>>, <<mini_GxCall>>, "gx", <<"Validating", "Retrieving">>,
           [Loc0 EXCEPT !.query = Interpolate(body.query), !.att = 1])

\* gxData.results.map((r, i) => `[${i + 1}] ${r.text}`).join("\n\n")
mini_Context(v) ==
  Join([i \in 1..Len(v) |-> <<"[">> \o NumStr(i) \o <<"]", " ">> \o v[i].text],
       <<"\n", "\n">>)

mini_AfterSearch(loc, r) ==
  IF ~r.ok THEN mini_Caught(GxFailed \o r.text, loc)
  ELSE IF r.json.t = "bad" THEN mini_Caught(SyntaxErrorMsg, loc)
  ELSE IF r.json.results.t # "arr"
       THEN mini_Caught(TypeErrorMsg, [loc EXCEPT !.gxData = r.json])
  ELSE Out(<<>>, <<OaCall>>, "oa", <<"Assembling", "Generating">>,
           [loc EXCEPT !.gxData = r.json, !.results = r.json.results.v,
                       !.context = mini_Context(r.json.results.v)])

\* { title: r.documentTitle, url: r.sourceUrl }
mini_Source(r) == [title |-> r.documentTitle, url |-> r.sourceUrl]

mini_Sources(v) == [i \in 1..Len(v) |-> mini_Source(v[i])]

\* openaiData.choices?.[0]?.message?.content || ""
mini_Answer(json) ==
  IF Falsy(json.content) THEN <<>> ELSE Interpolate(json.content)

\* openaiRes.json() is read whatever the status of the reply
mini_AfterGen(loc, r) ==
  IF r.json.t = "bad" THEN mini_Caught(SyntaxErrorMsg, loc)
  ELSE Reply(JsonResp(200, [answer_md |-> mini_Answer(r.json),
                            sources |-> mini_Sources(loc.results)]),
             <<"Responding">>, loc)

\* -------- the first handler of part_005 (eyelevel endpoint) ---------------
early_GxCall == Call("gx", 1, "api.eyelevel.ai/api/v1/search/content", "Bearer")

\* catch (err): 500 with err.message
early_Caught(msg, loc) == Reply(ErrResp(500, msg), <<"Error">>, loc)

\* The method check, the destructuring of req.body and the check of the
\* environment; the query is not examined.
early_Entry(method, body, env) ==
  IF method # "POST"
  THEN Reply(ErrResp(405, MsgMethod), <<"Validating", "Error">>, Loc0)
  ELSE IF body.t # "obj" THEN early_Caught(TypeErrorMsg, Loc0)
  ELSE IF ~env.GX_KEY \/ ~env.GX_BUCKET \/ ~env.OA_KEY
       THEN Reply(ErrResp(500, <<"Missing required environment variables">>),
                  <<"Validating", "Error">>, Loc0)
  ELSE Out(<<>>, <<early_GxCall>>, "gx", <<"Validating", "Retrieving">>,
           [Loc0 EXCEPT !.query = Interpolate(body.query), !.att = 1])

\* gxResponse.json() is read before gxResponse.ok is tested; the message of
\* a failure holds the body re-serialized.
early_AfterSearch(loc, r) ==
  IF r.json.t = "bad" THEN early_Caught(SyntaxErrorMsg, loc)
  ELSE IF ~r.ok THEN early_Caught(GxFailed \o r.text, loc)
  ELSE Out(<<>>, <<OaCall>>, "oa", <<"Assembling", "Generating">>,
           [loc EXCEPT !.gxData = r.json, !.context = SearchText(r.json)])

\* oaData.choices?.[0]?.message?.content || ""
early_Answer(json) ==
  IF Falsy(json.content) THEN <<>> ELSE Interpolate(json.content)

\* { answer, sources: gxData?.search?.results || [] }
early_AfterGen(loc, r) ==
  IF r.json.t = "bad" THEN early_Caught(SyntaxErrorMsg, loc)
  ELSE IF ~r.ok THEN early_Caught(<<"OpenAI request failed: ">> \o r.text, loc)
  ELSE Reply(JsonResp(200, [answer |-> early_Answer(r.json),
                            sources |-> SearchResults(loc.gxData)]),
             <<"Responding">>, loc)

\* ------------------------------------------------------------ variants ----
\* The handler serving the request: one of the variants of api/chat.js kept
\* in the repository.
Variants ==
  {"chat", "debug", "fallback", "basic", "sdk", "rest", "clean", "tips", "mini",
   "early"}

EntryOf(v, method, body, env) ==
  CASE v = "chat" -> chat_Entry(method)
    [] v = "debug" -> debug_Entry(method, body, env)
    [] v = "fallback" -> fb_Entry(method)
    [] v = "basic" -> basic_Entry(method, body)
    [] v = "sdk" -> sdk_Entry(method)
    [] v = "rest" -> rest_Entry(method)
    [] v = "clean" -> clean_Entry(method)
    [] v = "tips" -> tips_Entry(method)
    [] v = "mini" -> mini_Entry(body)
    [] v = "early" -> early_Entry(method, body, env)

ValidateOf(v, raw, env) ==
  CASE v = "chat" -> chat_Validate(raw, env)
    [] v = "fallback" -> fb_Validate(raw, env)
    [] v = "sdk" -> sdk_Validate(raw, env)
    [] v = "rest" -> rest_Validate(raw, env)
    [] v = "clean" -> clean_Validate(raw, env)
    [] v = "tips" -> tips_Validate(raw, env)

AfterSearchOf(v, loc, r) ==
  CASE v = "chat" -> chat_AfterSearch(loc, r)
    [] v = "debug" -> debug_AfterSearch(loc, r)
    [] v = "fallback" -> fb_AfterSearch(loc, r)
    [] v = "basic" -> basic_AfterSearch(loc, r)
    [] v = "sdk" -> sdk_AfterSearch(loc, r)
    [] v = "rest" -> rest_AfterSearch(loc, r)
    [] v = "clean" -> clean_AfterSearch(loc, r)
    [] v = "tips" -> tips_AfterSearch(loc, r)
    [] v = "mini" -> mini_AfterSearch(loc, r)
    [] v = "early" -> early_AfterSearch(loc, r)

AfterGenOf(v, loc, r) ==
  CASE v = "chat" -> chat_AfterGen(loc, r)
    [] v = "debug" -> debug_AfterGen(loc, r)
    [] v = "fallback" -> fb_AfterGen(loc, r)
    [] v = "basic" -> basic_AfterGen(loc, r)
    [] v = "sdk" -> sdk_AfterGen(loc, r)
    [] v = "rest" -> rest_AfterGen(loc, r)
    [] v = "clean" -> clean_AfterGen(loc, r)
    [] v = "tips" -> tips_AfterGen(loc, r)
    [] v = "mini" -> mini_AfterGen(loc, r)
    [] v = "early" -> early_AfterGen(loc, r)

\* ---------------------------------------------------------------- state ----
VARIABLES
  variant,    \* the handler serving the request
  req,        \* the request: its method and its raw body
  env,        \* the environment variables that are set
  pc,         \* where the handler is: start, read, gx, oa, done
  loc,        \* the handler's locals kept across awaits
  calls,      \* history: the outbound calls issued, in order
  replies,    \* history: what each resolved outbound call resolved to
  inflight,   \* the outbound calls issued and not yet resolved
  responses,  \* history: the responses sent
  steps,      \* history: the pipeline steps entered, in order
  peer        \* a second invocation of the handler, running at the same time

vars ==
  <<variant, req, env, pc, loc, calls, replies, inflight, responses, steps, peer>>

Requests == [method : Methods, raw : RawBodies]

\* The request is served alone.
NoPeer == [none |-> TRUE]

\* The body a body-parsing runtime hands to a handler that reads req.body.
ParsedBody(raw) == IF raw.k = "json" THEN raw.val ELSE Undef

Init ==
  /\ variant \in Variants
  /\ req \in Requests
  /\ env \in Envs
  \* a variable the handler never reads is left unset
  /\ variant \notin {"fallback", "sdk"} => ~env.GX_PROJECT /\ ~env.GX_GROUP
  \* the SDK clients of the module are constructed from the two keys
  /\ variant = "sdk" => env.GX_KEY /\ env.OA_KEY
  /\ pc = "start"
  /\ loc = Loc0
  /\ calls = <<>>
  /\ replies = <<>>
  /\ inflight = <<>>
  /\ responses = <<>>
  /\ steps = <<>>
  /\ peer = NoPeer

\* The handler runs one stretch o; resolved is the number of in-flight calls
\* whose resolution started the stretch.
Run(o, resolved) ==
  /\ steps' = steps \o o.ph
  /\ calls' = calls \o [i \in 1..Len(o.calls) |->
                          [call |-> o.calls[i], at |-> Len(steps \o o.ph)]]
  /\ inflight' = SubSeq(inflight, resolved + 1, Len(inflight)) \o o.calls
  /\ responses' = responses \o o.resps
  /\ pc' = o.pc
  /\ loc' = o.loc
  /\ UNCHANGED <<variant, req, env, peer>>

\* The request arrives and the handler starts.
Entry ==
  /\ pc = "start"
  /\ Run(EntryOf(variant, req.method, ParsedBody(req.raw), env), 0)
  /\ UNCHANGED replies

\* The request body has been read from the stream.
ReadBody ==
  /\ pc = "read"
  /\ Run(ValidateOf(variant, req.raw, env), 0)
  /\ UNCHANGED replies

\* The retrieval call in flight resolves.
GxResolve ==
  /\ pc = "gx"
  /\ \E r \in GxReplies :
       /\ replies' = Append(replies, r)
       /\ Run(AfterSearchOf(variant, loc, r), 1)

\* The generation call in flight resolves.
OaResolve ==
  /\ pc = "oa"
  /\ \E r \in OaReplies :
       /\ replies' = Append(replies, r)
       /\ Run(AfterGenOf(variant, loc, r), 1)

Next == Entry \/ ReadBody \/ GxResolve \/ OaResolve

Spec == Init /\ [][Next]_vars

\* The runtime delivers the request and the end of its body, and every
\* outbound call in flight resolves, with a success or with a failure.
Fairness ==
  /\ WF_vars(Entry)
  /\ WF_vars(ReadBody)
  /\ WF_vars(GxResolve)
  /\ WF_vars(OaResolve)

SpecLive == Spec /\ Fairness

\* ------------------------------------------- two concurrent invocations ----
\* The platform runs the exported handler once per request, and two runs
\* may overlap: each run has its own req and its own locals (every variable
\* of the handlers is declared inside the function), and the runs share the
\* module and process.env, which no handler writes.
Query2 == <<"h","i","p","?">>

PostJson(q) == [method |-> "POST", raw |-> [k |-> "json", val |-> [t |-> "obj", query |-> q]]]

PairRequests == { PostJson(JStr(QueryText)), PostJson(JStr(Query2)), PostJson(Undef) }

PairVariants == {"chat", "sdk"}

PairEnvs ==
  { e \in Envs : e.GX_KEY /\ e.OA_KEY /\ ~e.GX_PROJECT /\ ~e.GX_GROUP }

\* The second invocation at its start.
Peer0(r) ==
  [ req |-> r, pc |-> "start", loc |-> Loc0, calls |-> <<>>, replies |-> <<>>,
    inflight |-> <<>>, responses |-> <<>>, steps |-> <<>> ]

InitPair ==
  /\ variant \in PairVariants
  /\ req \in PairRequests
  /\ env \in PairEnvs
  /\ pc = "start"
  /\ loc = Loc0
  /\ calls = <<>>
  /\ replies = <<>>
  /\ inflight = <<>>
  /\ responses = <<>>
  /\ steps = <<>>
  /\ \E r \in PairRequests : peer = Peer0(r)

\* A slip: the locals are kept in variables of the module, which every
\* invocation reads and writes.
Locals_Module(mine, module) == module

\* The locals a stretch of an invocation resumes with: its own, since they
\* are declared with const and let inside the handler.
Locals(mine, module) == mine

\* The second invocation runs one stretch o, started by the resolution of
\* its calls in flight to the replies got.
PeerRun(o, got) ==
  /\ peer' =
       [peer EXCEPT
          !.replies = peer.replies \o got,
          !.steps = peer.steps \o o.ph,
          !.calls = peer.calls \o [i \in 1..Len(o.calls) |->
                       [call |-> o.calls[i], at |-> Len(peer.steps \o o.ph)]],
          !.inflight = SubSeq(peer.inflight, Len(got) + 1, Len(peer.inflight)) \o o.calls,
          !.responses = peer.responses \o o.resps,
          !.pc = o.pc,
          !.loc = o.loc]
  /\ UNCHANGED <<variant, req, env, pc, loc, calls, replies, inflight, responses, steps>>

PeerEntry ==
  /\ peer.pc = "start"
  /\ PeerRun(EntryOf(variant, peer.req.method, ParsedBody(peer.req.raw), env), <<>>)

PeerReadBody ==
  /\ peer.pc = "read"
  /\ PeerRun(ValidateOf(variant, peer.req.raw, env), <<>>)

PeerGxResolve ==
  /\ peer.pc = "gx"
  /\ \E r \in GxReplies :
       PeerRun(AfterSearchOf(variant, Locals(peer.loc, loc), r), <<r>>)

PeerOaResolve ==
  /\ peer.pc = "oa"
  /\ \E r \in OaReplies :
       PeerRun(AfterGenOf(variant, Locals(peer.loc, loc), r), <<r>>)

NextPair ==
  \/ Entry \/ ReadBody \/ GxResolve \/ OaResolve
  \/ PeerEntry \/ PeerReadBody \/ PeerGxResolve \/ PeerOaResolve

SpecPair == InitPair /\ [][NextPair]_vars

\* ------------------------------------------------- reading the history ----
\* The retrieval calls issued so far, and the size of the attempt matrix.
GxCalls == SelectSeq(calls, LAMBDA c : c.call.to = "gx")
OaCalls == SelectSeq(calls, LAMBDA c : c.call.to = "oa")
NGx == Len(GxCalls)

\* Retrieval calls resolve before the generation call is issued: the first
\* replies are theirs.
NGxReplies == IF Len(replies) < NGx THEN Len(replies) ELSE NGx

MatrixSize == IF variant = "debug" THEN 5 ELSE IF variant = "fallback" THEN 2 ELSE 1

\* An error body with the authorization signature, written out as the
\* bodies of the model that carry it.
AuthBodies ==
  { <<"I","n","v","a","l","i","d"," ","A","P","I"," ","K","e","y">>,
    <<"U","N","A","U","T","H","O","R","I","Z","E","D">>,
    <<"b","a","d"," ","a","u","t","h","o","r","i","z","a","t","i","o","n">> }

AuthFailure(r) == ~r.ok /\ r.text \in AuthBodies
HardFailure(r) == ~r.ok /\ r.text \notin AuthBodies

EndsWith(s, suffix) ==
  Len(suffix) <= Len(s) /\ SubSeq(s, Len(s) - Len(suffix) + 1, Len(s)) = suffix

Matrix == {"debug", "fallback"}

\* The attempt the code's matrix names at position n.
MatrixCall(n) == IF variant = "debug" THEN debug_GxCall(n) ELSE trySearch(n)

\* ------------------------------------------------------------------ C1 ----
\* C1: retrieval attempts are executed one after another in the order of
\* the matrix and the loop stops at the first success: if attempt k is the
\* first to succeed and attempts 1..k-1 failed with an auth-signature body,
\* exactly attempts 1..k are issued, in matrix order, and the value the
\* handler goes on with is the parsed body of attempt k.
C1_StopAtFirstSuccess ==
  variant \in Matrix =>
    /\ \A i \in 1..NGx : GxCalls[i].call = MatrixCall(i)
    /\ \A k \in 1..NGxReplies :
         (replies[k].ok /\ \A j \in 1..(k - 1) : AuthFailure(replies[j])) =>
           /\ NGx = k
           /\ replies[k].json.t # "bad" => loc.gxData = replies[k].json

C1_Witness ==
  /\ variant = "debug"
  /\ NGx = 3
  /\ Len(replies) >= 3
  /\ AuthFailure(replies[1]) /\ AuthFailure(replies[2])
  /\ replies[3].ok /\ replies[3].json.t # "bad"
  /\ pc = "done"

\* ------------------------------------------------------------------ C2 ----
\* C2: a retrieval attempt that fails with a body without the auth
\* signature ends retrieval at once, whatever its position in the matrix:
\* the request fails, no later attempt and no generation call is issued.
C2_HardFailureAborts ==
  variant \in Matrix =>
    \A k \in 1..NGxReplies :
      HardFailure(replies[k]) =>
        /\ NGx = k
        /\ calls = GxCalls
        /\ pc = "done"
        /\ Len(responses) = 1
        /\ responses[1].status >= 500
        /\ "error" \in DOMAIN responses[1].body

C2_Witness ==
  /\ variant = "debug"
  /\ NGx = 3
  /\ Len(replies) = 3
  /\ HardFailure(replies[3])
  /\ pc = "done"

\* ------------------------------------------------------------------ C3 ----
\* C3: when every attempt of the matrix fails with an auth-signature body,
\* the request fails with an error whose text ends with the raw body of the
\* last attempt, in the 5-attempt matrix and in the 2-attempt fallback.
C3_ExhaustionCarriesLastBody ==
  ( /\ variant \in Matrix
    /\ Len(replies) >= MatrixSize
    /\ \A j \in 1..MatrixSize : AuthFailure(replies[j]) ) =>
        /\ NGx = MatrixSize
        /\ calls = GxCalls
        /\ pc = "done"
        /\ Len(responses) = 1
        /\ responses[1].status >= 500
        /\ "error" \in DOMAIN responses[1].body
        /\ EndsWith(responses[1].body.error, replies[MatrixSize].text)

C3_Witness ==
  /\ variant = "fallback"
  /\ Len(replies) = 2
  /\ AuthFailure(replies[1]) /\ AuthFailure(replies[2])
  /\ replies[1].text # replies[2].text
  /\ pc = "done"

\* ------------------------------------------------------------------ C4 ----
\* The answer and the sources of a success body, under data where the
\* handler wraps them.
SuccessBody(resp) ==
  IF "data" \in DOMAIN resp.body THEN resp.body.data ELSE resp.body

\* C4: the handler of api/chat.js sends exactly one response per request:
\* never two, one once it has returned, and a success response carries the
\* rendered answers and the Source list.
C4_ExactlyOneResponse ==
  variant = "chat" =>
    /\ Len(responses) <= 1
    /\ (pc = "done") <=> (Len(responses) = 1)
    /\ \A i \in 1..Len(responses) :
         (responses[i].json /\ responses[i].status = 200) =>
           /\ {"answer_md", "answer_html", "sources"}
                 \subseteq DOMAIN SuccessBody(responses[i])
           /\ "error" \notin DOMAIN SuccessBody(responses[i])
           /\ "Responding" \in {steps[k] : k \in 1..Len(steps)} =>
                /\ SuccessBody(responses[i]).sources = loc.sources
                /\ "answer_markdown_links" \in DOMAIN SuccessBody(responses[i])

C4_Witness ==
  /\ variant = "chat"
  /\ pc = "done"
  /\ Len(responses) = 1
  /\ responses[1].status = 200 /\ responses[1].json
  /\ Len(SuccessBody(responses[1]).sources) = 2

\* ------------------------------------------------------------------ C5 ----
Edges ==
  { <<"Validating", "Retrieving">>, <<"Retrieving", "ShortCircuitEmpty">>,
    <<"Retrieving", "Assembling">>, <<"Assembling", "Generating">>,
    <<"Generating", "Rendering">>, <<"Rendering", "Responding">> }
    \cup { <<x, "Error">> :
             x \in {"Validating", "Retrieving", "Assembling", "Generating", "Rendering"} }

TerminalSteps == {"Error", "Responding", "ShortCircuitEmpty"}

\* C5: in api/chat.js the steps follow Validating, Retrieving, then
\* ShortCircuitEmpty or Assembling, Generating, Rendering, Responding, with
\* Error reachable from any of them; no step is entered twice, a call is
\* issued only in its own step (retrieval in Retrieving, generation in
\* Generating), and after Error, Responding or the short-circuit nothing is
\* in flight and the handler has returned.
C5_PipelineOrder ==
  variant = "chat" =>
    /\ steps # <<>> => steps[1] = "Validating"
    /\ \A i \in 1..(Len(steps) - 1) : <<steps[i], steps[i + 1]>> \in Edges
    /\ \A i, j \in 1..Len(steps) : i # j => steps[i] # steps[j]
    /\ \A i \in 1..Len(calls) :
         /\ calls[i].at \in 1..Len(steps)
         /\ steps[calls[i].at] =
              (IF calls[i].call.to = "gx" THEN "Retrieving" ELSE "Generating")
    /\ (steps # <<>> /\ steps[Len(steps)] \in TerminalSteps) =>
         pc = "done" /\ inflight = <<>>

C5_Witness ==
  /\ variant = "chat"
  /\ steps = <<"Validating", "Retrieving", "Assembling", "Generating",
               "Rendering", "Responding">>
  /\ Len(calls) = 2

\* ------------------------------------------------------------------ C6 ----
AllSpace(s) == \A i \in 1..Len(s) : IsSpace(s[i])

\* a JSON body with no query field, or with a query empty after trimming
MissingQueryBody(raw) ==
  /\ raw.k = "json"
  /\ raw.val.t = "obj"
  /\ \/ raw.val.query.t = "undef"
     \/ raw.val.query.t = "str" /\ AllSpace(raw.val.query.s)

\* C6: in api/chat.js a POST whose JSON body has no query, or a query that
\* is empty after trimming, is answered 400 {error: "Missing 'query' string"}
\* and no outbound call is made.
C6_MissingQuery ==
  (variant = "chat" /\ req.method = "POST" /\ MissingQueryBody(req.raw)) =>
    /\ calls = <<>>
    /\ pc = "done" =>
         responses = <<[status |-> 400, json |-> TRUE,
                        body |-> [error |-> <<"Missing 'query' string">>]]>>

C6_Witness ==
  /\ variant = "chat"
  /\ req.method = "POST"
  /\ req.raw.k = "json" /\ req.raw.val.t = "obj"
  /\ req.raw.val.query = JStr(<<" ">>)
  /\ env.GX_KEY /\ env.GX_BUCKET /\ env.OA_KEY
  /\ pc = "done"

\* ------------------------------------------------------------------ C7 ----
\* C7: a request with a method other than POST (the preflight OPTIONS, which
\* is acknowledged before validation, set aside) or with a body that is not
\* valid JSON is rejected with a client-error response, and no outbound
\* call is made; in api/chat.js and in the handler that reads the body with
\* readJson.
C7_ValidationRejections ==
  ( /\ variant \in {"chat", "sdk"}
    /\ \/ req.method \notin {"POST", "OPTIONS"}
       \/ req.method = "POST" /\ req.raw.k = "invalid" ) =>
    /\ calls = <<>>
    /\ pc = "done" =>
         /\ Len(responses) = 1
         /\ responses[1].status \in 400..499

\* ------------------------------------------------------------------ C8 ----
\* a JSON body with a query that is not empty after trimming
ValidBody(raw) ==
  /\ raw.k = "json"
  /\ raw.val.t = "obj"
  /\ raw.val.query.t = "str"
  /\ ~AllSpace(raw.val.query.s)

\* C8: in api/chat.js a valid request served with a required configuration
\* value missing (retrieval key, bucket identifier, generation key) is
\* answered with a server error, and no outbound call is made.
C8_MissingConfig ==
  ( /\ variant = "chat"
    /\ req.method = "POST"
    /\ ValidBody(req.raw)
    /\ ~(env.GX_KEY /\ env.GX_BUCKET /\ env.OA_KEY) ) =>
    /\ calls = <<>>
    /\ pc = "done" =>
         /\ Len(responses) = 1
         /\ responses[1].status \in 500..599
         /\ "error" \in DOMAIN responses[1].body

C8_Witness ==
  /\ variant = "chat"
  /\ req.method = "POST"
  /\ ValidBody(req.raw)
  /\ env.GX_KEY /\ env.GX_BUCKET /\ ~env.OA_KEY
  /\ pc = "done"
  /\ Len(responses) = 1

\* ------------------------------------------------------------------ C9 ----
NoPassages(v) == v.t = "undef" \/ (v.t = "arr" /\ v.v = <<>>)

\* retrieval succeeded with zero passages and no pre-assembled context
EmptyEvidence(r) ==
  /\ r.ok
  /\ r.json.t = "obj"
  /\ NoPassages(r.json.results)
  /\ r.json.search.t = "obj" =>
       r.json.search.text = <<>> /\ NoPassages(r.json.search.results)

\* C9: for every empty-evidence outcome the response is a success with an
\* empty sources array and an answer that contains the query, and the
\* generation backend is not called; in api/chat.js and in the first
\* handler of part_000.
C9_EmptyEvidence ==
  ( /\ variant \in {"chat", "basic"}
    /\ Len(replies) >= 1
    /\ EmptyEvidence(replies[1]) ) =>
    /\ OaCalls = <<>>
    /\ pc = "done"
    /\ Len(responses) = 1
    /\ responses[1].status = 200
    /\ SuccessBody(responses[1]).sources = <<>>
    /\ loc.query # <<>>
    /\ Contains(SuccessBody(responses[1]).answer_md, loc.query)

\* ----------------------------------------------------------------- C10 ----
SourceNumber(s) == IF "number" \in DOMAIN s THEN s.number ELSE s.id

\* C10: for every non-empty passage list the Source numbers of the response
\* are exactly 1..min(len(passages), 10), in retrieval order; in
\* api/chat.js, api/debug.js and part_002.
C10_SourceNumbers ==
  ( /\ variant \in {"chat", "debug", "rest"}
    /\ pc = "done"
    /\ loc.results # <<>>
    /\ Len(responses) = 1
    /\ responses[1].status = 200 ) =>
    LET S == SuccessBody(responses[1]).sources
    IN  /\ Len(S) = (IF Len(loc.results) < 10 THEN Len(loc.results) ELSE 10)
        /\ \A i \in 1..Len(S) : SourceNumber(S[i]) = i

\* ----------------------------------------------------------------- C11 ----
\* The handler has answered with a rendered answer.
Rendered == pc = "done" /\ "Rendering" \in {steps[k] : k \in 1..Len(steps)}

\* The answer the generation backend gave, as the handler reads it.
TheAnswer == AnswerOf(replies[Len(replies)].json).s

\* The encodings each handler renders.
EncodingsOf(v) ==
  CASE v = "chat" -> {"html", "md"}
    [] v = "clean" -> {"html", "hover", "inline"}
    [] v = "tips" -> {"html", "hover", "tooltip"}
    [] OTHER -> {}

\* The render function of an encoding.
Render(enc, text, S) ==
  CASE enc = "html" -> createClickableCitations(text, S)
    [] enc = "md" -> createMarkdownCitations(text, S)
    [] enc = "hover" -> createHoverCitations(text, S)
    [] enc = "inline" -> createCleanInlineCitations(text, S)
    [] enc = "tooltip" -> createHTMLTooltips(text, S)

\* The field of the success body that carries an encoding.
FieldOf(enc, body) ==
  CASE enc = "html" -> body.answer_html
    [] enc = "md" -> body.answer_markdown_links
    [] enc = "hover" -> body.answer_hover_citations
    [] enc = "inline" -> body.answer_clean_inline
    [] enc = "tooltip" -> body.answer_html_tooltips

StartsWith(s, prefix) ==
  Len(prefix) <= Len(s) /\ SubSeq(s, 1, Len(prefix)) = prefix

\* the numbers a marker of the answers may carry
MarkerNums == 1..12

Bracketed(k) == <<"[">> \o NumStr(k) \o <<"]">>

Occurrences(s, pat) ==
  { i \in 1..(Len(s) - Len(pat) + 1) : SubSeq(s, i, i + Len(pat) - 1) = pat }

\* C11: a marker [k] of the answer whose k is the number of no Source is
\* left as it is by every rendering (HTML anchor, markdown link, hover,
\* clean inline): the text before it and the text after it are rendered as
\* they would be alone and the literal [k] stands between them; rendering
\* does not fail.
C11_UnknownMarkersKept ==
  (variant \in {"chat", "clean"} /\ Rendered) =>
    LET S == loc.sources
        A == TheAnswer
    IN  /\ Len(responses) = 1 /\ responses[1].status = 200
        /\ \A enc \in EncodingsOf(variant) :
             /\ StartsWith(FieldOf(enc, SuccessBody(responses[1])), Render(enc, A, S))
             /\ \A k \in MarkerNums \ {S[n].number : n \in 1..Len(S)} :
                  \A i \in Occurrences(A, Bracketed(k)) :
                    Render(enc, A, S) =
                      Render(enc, SubSeq(A, 1, i - 1), S) \o Bracketed(k)
                        \o Render(enc, SubSeq(A, i + Len(Bracketed(k)), Len(A)), S)

C11_Witness ==
  /\ variant = "clean"
  /\ Rendered
  /\ Len(loc.sources) = 2
  /\ TheAnswer = Answer3
  /\ Len(responses) = 1

\* ----------------------------------------------------------------- C12 ----
\* C12: rendering is idempotent per encoding: the render function of an
\* encoding, applied to its own output with the same Source list, returns
\* that output unchanged.
C12_RenderIdempotent ==
  (variant \in {"chat", "clean"} /\ Rendered) =>
    \A enc \in EncodingsOf(variant) :
      Render(enc, Render(enc, TheAnswer, loc.sources), loc.sources)
        = Render(enc, TheAnswer, loc.sources)

\* ----------------------------------------------------------------- C13 ----
\* The Sources block a response field appends to an encoding.
BlockOf(enc, S) ==
  CASE enc = "html" -> SourcesHeadHtml \o sources_html(S)
    [] enc = "md" -> SourcesHeadMd \o sources_markdown_links(S)
    [] OTHER -> <<>>

\* C13: each encoding of a response is the rendering of the original
\* answer with the Source list built before generation: no encoding is
\* computed from another encoding, and the answer and the Source list reach
\* the response as they were.
C13_EncodingsIndependent ==
  (variant \in {"chat", "clean"} /\ Rendered) =>
    LET S == chat_Sources(loc.results)
        A == TheAnswer
        B == SuccessBody(responses[1])
    IN  /\ B.sources = S
        /\ B.answer_md = A \o SourcesHeadMd \o sources_md(S)
        /\ \A enc \in EncodingsOf(variant) :
             FieldOf(enc, B) = Render(enc, A, S) \o BlockOf(enc, S)

C13_Witness ==
  /\ variant = "clean"
  /\ Rendered
  /\ TheAnswer = Answer1
  /\ Len(loc.sources) = 2
  /\ SuccessBody(responses[1]).answer_hover_citations # TheAnswer

\* ----------------------------------------------------------------- C14 ----
\* The link an encoding puts in the place of the marker of a Source.
LinkOf(enc, source) ==
  CASE enc = "html" -> ClickableLink(source)
    [] enc = "md" -> MarkdownLink(source)
    [] enc = "hover" -> hoverLink(source)
    [] enc = "inline" -> cleanCitation(source)
    [] enc = "tooltip" -> htmlTooltip(source)

\* The link of an encoding leads to url.
LeadsTo(enc, link, number, url) ==
  CASE enc \in {"html", "tooltip"} ->
         StartsWith(link, <<"<a href=\"">> \o url \o <<"\" target=\"_blank\" title=\"">>)
    [] enc = "hover" -> StartsWith(link, Bracketed(number) \o <<"(">> \o url \o <<" ">>)
    [] enc \in {"md", "inline"} ->
         EndsIn(link, <<"]", "]", "(">> \o url \o <<")">>)

\* text read once from left to right, each marker of a Source of S replaced
\* by the link of that Source, everything else copied
RECURSIVE Resolved(_, _, _)
Resolved(text, S, enc) ==
  IF text = <<>> THEN <<>>
  ELSE LET hit == { n \in 1..Len(S) : StartsWith(text, Bracketed(S[n].number)) }
       IN  IF hit = {}
           THEN <<Head(text)>> \o Resolved(Tail(text), S, enc)
           ELSE LET n == CHOOSE n \in hit : TRUE
                IN  LinkOf(enc, S[n])
                      \o Resolved(SubSeq(text, Len(Bracketed(S[n].number)) + 1, Len(text)),
                                  S, enc)

\* No title and no excerpt of S holds the marker of a Source of S.
MarkerFree(S) ==
  \A n, m \in 1..Len(S) :
    /\ ~Contains(S[n].title, Bracketed(S[m].number))
    /\ ~Contains(S[n].chunk_text, Bracketed(S[m].number))

\* The part of the link of an encoding that holds its target url, for the
\* Source numbered n.
LinkStart(enc, n, url) ==
  CASE enc \in {"html", "tooltip"} ->
         <<"<a href=\"">> \o url \o <<"\" target=\"_blank\" title=\"">>
    [] enc = "hover" -> Bracketed(n) \o <<"(">> \o url \o <<" ">>
    [] enc \in {"md", "inline"} -> <<"]", "]", "(">> \o url \o <<")">>

\* C14: the encodings of one response of the third handler of part_005
\* agree: the link each puts for the marker [n] leads to the url of the
\* Source numbered n, which is the url of the n-th passage; every encoding
\* holds that link for every Source the answer cites; and where no title or
\* excerpt holds a marker itself, each encoding is the answer with exactly
\* the markers of the existing Sources replaced.
C14_EncodingsConsistent ==
  (variant = "clean" /\ Rendered) =>
    LET S == loc.sources
        B == SuccessBody(responses[1])
    IN  /\ \A n \in 1..Len(S) :
             /\ S[n].number = n
             /\ S[n].url = OrStr(loc.results[n].sourceUrl, loc.results[n].multimodalUrl)
             /\ \A enc \in EncodingsOf(variant) :
                  LeadsTo(enc, LinkOf(enc, S[n]), n, S[n].url)
        /\ MarkerFree(S) =>
             \A enc \in EncodingsOf(variant) :
               FieldOf(enc, B) = Resolved(TheAnswer, S, enc) \o BlockOf(enc, S)
        /\ \A enc \in EncodingsOf(variant) :
             \A n \in 1..Len(S) :
               \/ Occurrences(TheAnswer, Bracketed(n)) = {}
               \/ Contains(FieldOf(enc, B), LinkStart(enc, n, S[n].url))

C14_Witness ==
  /\ variant = "clean"
  /\ Rendered
  /\ TheAnswer = Answer3
  /\ Len(loc.sources) = 2
  /\ loc.sources[1].url # loc.sources[2].url

\* ----------------------------------------------------------------- C15 ----
\* The url and the title a passage is cited with.
UrlOfPassage(p) == IF p.sourceUrl # <<>> THEN p.sourceUrl ELSE p.multimodalUrl

TitleOfPassage(p, n) ==
  IF p.title # <<>> THEN p.title
  ELSE IF p.fileName # <<>> THEN p.fileName
  ELSE <<"S","o","u","r","c","e"," ">> \o NumStr(n)

\* `[\[n\]](url)`
CitationLink(n, url) ==
  <<"[", "\\", "[">> \o NumStr(n) \o <<"\\", "]", "]", "(">> \o url \o <<")">>

\* `**[n]:** [title](url)`
SourcesEntry(n, title, url) ==
  <<"**", "[">> \o NumStr(n) \o <<"]", ":", "**", " ", "[">> \o title
    \o <<"]", "(">> \o url \o <<")">>

\* C15: when retrieval returns passages p1..pk, k <= 10, the markdown
\* output of api/chat.js holds, for each number the answer cites, the link
\* [\[n\]](url of pn) in the answer text, and after the answer one Sources
\* block that lists every Source with its derived title and its url.
C15_MarkdownOutput ==
  ( /\ variant = "chat"
    /\ Rendered
    /\ Len(loc.results) \in 1..10 ) =>
    LET P == loc.results
        out == SuccessBody(responses[1]).answer_markdown_links
        heads == Occurrences(out, <<"\n", "\n", "---", "\n", "**Sources**", "\n">>)
    IN  /\ Cardinality(heads) = 1
        /\ LET h == CHOOSE i \in heads : TRUE
               text == SubSeq(out, 1, h - 1)
               block == SubSeq(out, h, Len(out))
           IN  /\ \A n \in 1..Len(P) :
                    Occurrences(TheAnswer, Bracketed(n)) # {} =>
                      /\ Contains(text, CitationLink(n, UrlOfPassage(P[n])))
                      /\ ~Contains(text, Bracketed(n))
               /\ \A n \in 1..Len(P) :
                    Contains(block, SourcesEntry(n, TitleOfPassage(P[n], n),
                                                 UrlOfPassage(P[n])))
               /\ \A n, m \in 1..Len(P) :
                    n # m => CitationLink(n, UrlOfPassage(P[n]))
                               # CitationLink(m, UrlOfPassage(P[m]))

C15_Witness ==
  /\ variant = "chat"
  /\ Rendered
  /\ Len(loc.results) = 2
  /\ TheAnswer = Answer1
  /\ UrlOfPassage(loc.results[1]) # UrlOfPassage(loc.results[2])

\* ----------------------------------------------------------------- C16 ----
\* The generation call has resolved, and to what.
GenResolved == OaCalls # <<>> /\ Len(replies) = Len(calls)
GenReply == replies[Len(replies)]

\* C16: when the generation backend answers with a non-success status the
\* request ends with the upstream-dependency error (502) whose text carries
\* the body of that answer; nothing is rendered and no success body is
\* sent.  For the handlers of api/chat.js, part_003 and part_004.
C16_GenerationFailure ==
  ( /\ variant \in {"chat", "tips", "mini"}
    /\ GenResolved
    /\ ~GenReply.ok ) =>
    /\ pc = "done"
    /\ Len(responses) = 1
    /\ responses[1].status = 502
    /\ "error" \in DOMAIN responses[1].body
    /\ EndsIn(responses[1].body.error, GenReply.text)
    /\ ~Rendered

\* ----------------------------------------------------------------- C17 ----
\* The generation backend succeeded with the answer field empty or missing.
EmptyAnswer(r) ==
  /\ r.ok
  /\ r.json.t = "obj"
  /\ r.json.content \in {Undef, JStr(<<>>)}

\* C17: when the generation backend succeeds with an empty or missing
\* answer field the request does not fail: the response is a success whose
\* answer is the literal "No answer." and whose sources are the Source list
\* built from the passages.  For api/chat.js and api/debug.js.
C17_EmptyAnswerFallback ==
  ( /\ variant \in {"chat", "debug"}
    /\ GenResolved
    /\ EmptyAnswer(GenReply) ) =>
    /\ pc = "done"
    /\ Len(responses) = 1
    /\ responses[1].status = 200
    /\ StartsWith(SuccessBody(responses[1]).answer_md,
                  <<"N","o"," ","a","n","s","w","e","r",".">>)
    /\ loc.results # <<>> => SuccessBody(responses[1]).sources # <<>>
    /\ \A n \in 1..Len(SuccessBody(responses[1]).sources) :
         SourceNumber(SuccessBody(responses[1]).sources[n]) = n

\* ----------------------------------------------------------------- C18 ----
\* C18: within one request the generation backend is called at most once
\* and never again after it failed, the retrieval calls are at most as many
\* as the attempt matrix has entries (5 in gxSearch, 2 in the X-API-Key /
\* Bearer fallback), and no attempt (endpoint and authentication style) is
\* issued twice.
C18_BoundedAttempts ==
  variant \in Matrix =>
    /\ Len(OaCalls) <= 1
    /\ NGx <= MatrixSize
    /\ \A i, j \in 1..NGx :
         i # j => <<GxCalls[i].call.url, GxCalls[i].call.auth>>
                    # <<GxCalls[j].call.url, GxCalls[j].call.auth>>
    /\ (GenResolved /\ ~GenReply.ok) => pc = "done" /\ inflight = <<>>

C18_Witness ==
  /\ variant = "debug"
  /\ NGx = 5
  /\ GenResolved
  /\ ~GenReply.ok
  /\ pc = "done"

\* ----------------------------------------------------------------- C19 ----
\* C19: within one request at most one outbound call is in flight: a call
\* is issued only when every earlier call has resolved, and the generation
\* call only after a retrieval attempt has resolved with success.  For
\* api/debug.js and api/chat.js.
C19_OneCallInFlight ==
  variant \in {"debug", "chat"} =>
    /\ Len(inflight) <= 1
    /\ Len(calls) = Len(replies) + Len(inflight)
    /\ \A i \in 1..Len(calls) :
         calls[i].call.to = "oa" =>
           /\ i = NGx + 1
           /\ NGx >= 1
           /\ Len(replies) >= NGx
           /\ replies[NGx].ok

C19_Witness ==
  /\ variant = "debug"
  /\ NGx = 2
  /\ Len(replies) = 2
  /\ Len(inflight) = 1
  /\ inflight[1].to = "oa"

\* ----------------------------------------------------------------- C20 ----
\* Retrieval has failed: by a failure without the auth signature, or by a
\* failure of every attempt of the matrix.
RetrievalFailed ==
  /\ NGxReplies >= 1
  /\ NGxReplies = NGx
  /\ \/ HardFailure(replies[NGx])
     \/ NGx = MatrixSize /\ \A j \in 1..NGx : AuthFailure(replies[j])

\* C20: in api/debug.js a failed retrieval, by a hard failure or by
\* exhaustion of the matrix, is answered with the upstream-dependency error
\* status (502) and not with the status of an unclassified exception (500),
\* and the error text carries the body of the last attempt.
C20_RetrievalFailureClassified ==
  (variant = "debug" /\ RetrievalFailed) =>
    /\ pc = "done"
    /\ Len(responses) = 1
    /\ responses[1].status = 502
    /\ "error" \in DOMAIN responses[1].body
    /\ EndsIn(responses[1].body.error, replies[NGx].text)

\* ----------------------------------------------------------------- C21 ----
\* The request fails: it is not a valid POST, a required configuration
\* value is missing, a backend answered with a failure or with a body that
\* is not JSON, or the handler took its error path.
RequestFails ==
  \/ req.method \notin {"POST", "OPTIONS"}
  \/ req.method = "POST" /\ ~ValidBody(req.raw)
  \/ req.method = "POST" /\ ~(env.GX_KEY /\ env.GX_BUCKET /\ env.OA_KEY)
  \/ \E k \in 1..Len(replies) : ~replies[k].ok \/ replies[k].json.t = "bad"
  \/ "Error" \in {steps[k] : k \in 1..Len(steps)}

\* The fields of a body that carry an answer or sources.
AnswerFields(body) ==
  { f \in DOMAIN body : f \in {"data", "answer", "answer_md", "answer_html", "sources"} }

\* A response that reports a failure: JSON, a non-success status, an error
\* string, no answer and no sources.
IsErrorResponse(resp) ==
  /\ resp.json
  /\ resp.status >= 400
  /\ DOMAIN resp.body = {"error"}
  /\ resp.body.error \in Seq(STRING)
  /\ resp.body.error # <<>>

\* C21: every failing request (validation, configuration, retrieval,
\* generation, an exception thrown in the handler) is answered, once the
\* handler has returned, with one JSON body that has an error string and a
\* non-success status; a body with an answer or sources never comes with a
\* failure.  For the handlers of api/chat.js, part_003 and part_004.
C21_FailuresAnswered ==
  variant \in {"chat", "tips", "mini"} =>
    /\ (RequestFails /\ pc = "done") =>
         Len(responses) = 1 /\ IsErrorResponse(responses[1])
    /\ \A i \in 1..Len(responses) :
         responses[i].json =>
           \/ IsErrorResponse(responses[i])
           \/ /\ responses[i].status = 200
              /\ "error" \notin DOMAIN responses[i].body
              /\ AnswerFields(responses[i].body) # {}

\* ----------------------------------------------------------------- C22 ----
\* What an invocation has reached: where it is, its locals, its responses.
Reached(p, l, rs) == [pc |-> p, loc |-> l, responses |-> rs]

\* The stretch o applied to what an invocation has reached.
After(fr, o) == Reached(o.pc, o.loc, fr.responses \o o.resps)

\* The handler v run alone on the request rq under the environment e, its
\* calls resolving to the replies rs in turn.
RECURSIVE Alone(_, _, _, _, _)
Alone(v, e, rq, fr, rs) ==
  IF fr.pc = "start"
  THEN Alone(v, e, rq, After(fr, EntryOf(v, rq.method, ParsedBody(rq.raw), e)), rs)
  ELSE IF fr.pc = "read"
  THEN Alone(v, e, rq, After(fr, ValidateOf(v, rq.raw, e)), rs)
  ELSE IF fr.pc = "done" \/ rs = <<>> THEN fr
  ELSE IF fr.pc = "gx"
  THEN Alone(v, e, rq, After(fr, AfterSearchOf(v, fr.loc, Head(rs))), Tail(rs))
  ELSE Alone(v, e, rq, After(fr, AfterGenOf(v, fr.loc, Head(rs))), Tail(rs))

Awaiting == {"gx", "oa", "done"}

\* C22: two invocations of the handler that run at the same time do not
\* interfere: whatever the interleaving of their steps, what each has
\* reached (its locals, its response with status, answer and sources) is
\* what the handler reaches alone on the same request with the same backend
\* replies.  For api/chat.js and the handler of part_000 that shares the
\* clients of its module.
C22_NoInterference ==
  /\ pc \in Awaiting =>
       Reached(pc, loc, responses)
         = Alone(variant, env, req, Reached("start", Loc0, <<>>), replies)
  /\ peer.pc \in Awaiting =>
       Reached(peer.pc, peer.loc, peer.responses)
         = Alone(variant, env, peer.req, Reached("start", Loc0, <<>>), peer.replies)

\* One invocation has answered while the other, serving another query,
\* still waits for its generation call, and both got passages.
C22_Witness ==
  /\ pc = "done"
  /\ Len(replies) = 2
  /\ Len(responses) = 1 /\ responses[1].status = 200
  /\ peer.pc = "oa"
  /\ Len(peer.replies) = 1
  /\ peer.loc.query # loc.query
  /\ peer.loc.query # <<>> /\ loc.query # <<>>
  /\ peer.replies[1] # replies[1]

\* ----------------------------------------------------------------- C23 ----
\* The generation call has been issued after a retrieval reply with passages
\* or with a pre-assembled context.
Assembled == OaCalls # <<>> /\ Len(replies) >= 1 /\ replies[1].ok

\* The pre-assembled context and the passages of the retrieval reply.
BackendText == replies[1].json.search.text
BackendPassages == replies[1].json.search.results.v

\* `[n] <passage text>`
NumberedLine(n, p) ==
  <<"[">> \o NumStr(n) \o <<"]", " ">>
    \o (IF p.suggestedText # <<>> THEN p.suggestedText ELSE p.text)

\* The lines of the first n passages of P, a blank line between two lines.
RECURSIVE NumberedLines(_, _)
NumberedLines(P, n) ==
  IF n = 0 THEN <<>>
  ELSE IF n = 1 THEN NumberedLine(1, P[1])
  ELSE NumberedLines(P, n - 1) \o <<"\n", "\n">> \o NumberedLine(n, P[n])

\* The user message up to the end of the context, for the context c.
UpToContext(c) ==
  <<"Question: ">> \o loc.query \o <<"\n", "\n", "Context:", "\n">> \o c
    \o <<"\n", "\n", "Numbered sources you may cite:", "\n">>

\* C23: in api/chat.js the context sent to generation is the pre-assembled
\* context of the retrieval backend when that string is not empty, and
\* otherwise the lines `[n] <passage text>` of the passages, in retrieval
\* order, n from 1, separated by blank lines.
C23_ContextAssembly ==
  (variant = "chat" /\ Assembled) =>
    LET sent == OaCalls[1].call.content
    IN  IF BackendText # <<>>
        THEN StartsWith(sent, UpToContext(BackendText))
        ELSE StartsWith(sent, UpToContext(NumberedLines(BackendPassages,
                                                        Len(BackendPassages))))

\* Two passages and no pre-assembled context.
C23_Witness ==
  /\ variant = "chat"
  /\ Assembled
  /\ BackendText = <<>>
  /\ Len(BackendPassages) = 2
  /\ Contains(OaCalls[1].call.content,
              <<"[","1","]"," ","j","o","i","n","t","\n","\n","[","2","]"," ","k","n","e","e">>)

\* ----------------------------------------------------------------- C24 ----
\* The context of the user message sent, and the listing that follows it.
SentContext == IF BackendText # <<>> THEN BackendText ELSE loc.context
SentListing ==
  SubSeq(OaCalls[1].call.content, Len(UpToContext(SentContext)) + 1,
         Len(OaCalls[1].call.content))

\* The entry `n. ` at the start of a line of the listing.
ListingLabel(n) == NumStr(n) \o <<".", " ">>

\* C24: in api/chat.js, when retrieval returns more than 10 passages, the
\* passages beyond the tenth get no citation number: the Sources are
\* numbered 1..10, the listing of citable sources in the prompt has no entry
\* beyond 10, and a context synthesized by the handler holds no label [n]
\* with n > 10.
C24_CapBoundsNumbering ==
  ( /\ variant = "chat"
    /\ Assembled
    /\ Len(BackendPassages) > SourceCap ) =>
    /\ Len(loc.sources) = SourceCap
    /\ \A i \in 1..Len(loc.sources) : loc.sources[i].number = i
    /\ StartsWith(SentListing, ListingLabel(1))
    /\ \A n \in (SourceCap + 1)..Len(BackendPassages) :
         /\ ~Contains(SentListing, <<"\n">> \o ListingLabel(n))
         /\ BackendText = <<>> => ~Contains(SentContext, Bracketed(n))

\* ----------------------------------------------------------------- C25 ----
\* The text of a passage: r.suggestedText || r.text || "".
PassageText(p) == IF p.suggestedText # <<>> THEN p.suggestedText ELSE p.text

Ellipsis == <<".", ".", ".">>

\* C25: in api/chat.js the excerpt of every Source has at most 150
\* characters: it is the passage text when that has at most 150
\* characters, and otherwise a truncation of it that ends with an ellipsis.
C25_ExcerptBound ==
  (variant = "chat" /\ Assembled) =>
    \A i \in 1..Len(loc.sources) :
      LET text == PassageText(loc.results[i])
          excerpt == loc.sources[i].chunk_text
      IN  /\ Len(excerpt) <= ExcerptMax
          /\ Len(text) <= ExcerptMax => excerpt = text
          /\ Len(text) > ExcerptMax =>
               /\ EndsIn(excerpt, Ellipsis)
               /\ StartsWith(text, SubSeq(excerpt, 1, Len(excerpt) - Len(Ellipsis)))

\* ----------------------------------------------------------------- C26 ----
\* The file name of a passage, where the handler reads it.
FileNameOf(p) == IF variant = "sdk" THEN p.sdFileName ELSE p.fileName

\* The title the priority chain gives to the passage p cited as number n.
ChainTitle(p, n) ==
  IF p.title # <<>> THEN p.title
  ELSE IF FileNameOf(p) # <<>> THEN FileNameOf(p)
  ELSE IF p.sourceUrl # <<>> /\ LastSegment(p.sourceUrl) # <<>>
       THEN LastSegment(p.sourceUrl)
  ELSE <<"S","o","u","r","c","e"," ">> \o NumStr(n)

\* C26: the title of a Source is the explicit title of its passage, else
\* its file name, else the last path segment of its source URL, else
\* `Source N` with N the number of the Source, each used exactly when the
\* earlier ones are absent; it is never empty.  For api/chat.js and for
\* toSources of part_000.
C26_TitleChain ==
  (variant \in {"chat", "sdk"} /\ OaCalls # <<>>) =>
    \A i \in 1..Len(loc.sources) :
      /\ loc.sources[i].title # <<>>
      /\ loc.sources[i].title = ChainTitle(loc.results[i], i)

\* ----------------------------------------------------------------- C27 ----
\* An error body that carries a missing-identifier phrase.
IdentifierBodies ==
  { <<"b","u","c","k","e","t","I","d"," ","i","s"," ","r","e","q","u","i","r","e","d">> }

\* The authorization / identifier-shape signature.
ShapeMismatch(text) == text \in AuthBodies \cup IdentifierBodies

\* C27: a failed retrieval attempt is followed by the next attempt of the
\* matrix exactly when its error body carries the signature: "api key",
\* "unauthorized" or "authorization" in any letter case, or a phrase on a
\* missing or invalid identifier; with any other body the request fails at
\* once.  For gxSearch of api/debug.js and the fallback of part_005.
C27_ShapeMismatchClassified ==
  variant \in Matrix =>
    \A k \in 1..NGxReplies :
      ~replies[k].ok =>
        IF ShapeMismatch(replies[k].text)
        THEN k < MatrixSize => NGx > k
        ELSE /\ NGx = k
             /\ pc = "done"
             /\ Len(responses) = 1
             /\ responses[1].status >= 500

\* ----------------------------------------------------------------- C28 ----
\* The heading of the Sources block and the start of the entry of Source n,
\* in markdown and in HTML.
HeadingOf(enc) ==
  IF enc = "html" THEN <<"<br><br><hr><strong>Sources</strong><br><br>">>
  ELSE <<"\n", "\n", "---", "\n", "**Sources**", "\n">>

EntryStart(enc, n) ==
  IF enc = "html" THEN <<"<strong>", "[">> \o NumStr(n) \o <<"]", ":", "</strong> <a href=\"">>
  ELSE <<"[">> \o NumStr(n) \o <<"]", ":", " ">>

\* The separator of two entries.
EntrySep(enc) == IF enc = "html" THEN <<"<br><br>">> ELSE <<"\n">>

\* out is text followed by one Sources block with one entry per Source of S,
\* in the order of their numbers.
HasSourcesBlock(enc, out, text, S) ==
  /\ StartsWith(out, text \o HeadingOf(enc))
  /\ LET block == SubSeq(out, Len(text \o HeadingOf(enc)) + 1, Len(out))
     IN  /\ S # <<>> => StartsWith(block, EntryStart(enc, 1))
         /\ \A n \in 1..Len(S) :
              Cardinality(Occurrences(block, EntryStart(enc, S[n].number))) = 1
         /\ \A n \in 1..(Len(S) - 1) :
              \E i \in Occurrences(block, EntryStart(enc, S[n].number)),
                 j \in Occurrences(block, EntrySep(enc) \o EntryStart(enc, S[n + 1].number)) :
                i < j
         /\ \A k \in MarkerNums \ {S[n].number : n \in 1..Len(S)} :
              Occurrences(block, EntryStart(enc, k)) = {}

\* C28: in the third handler of part_005 the markdown and the HTML encoding
\* end with one Sources block that lists every Source, one entry each, in
\* number order; the clean-inline encoding gets no such block: it is the
\* answer with its markers substituted and nothing else.
C28_SourcesBlock ==
  (variant = "clean" /\ Rendered) =>
    LET S == loc.sources
        B == SuccessBody(responses[1])
    IN  /\ \A n \in 1..Len(S) : S[n].number = n
        /\ HasSourcesBlock("md", B.answer_md, TheAnswer, S)
        /\ HasSourcesBlock("html", B.answer_html, Render("html", TheAnswer, S), S)
        /\ B.answer_clean_inline = Render("inline", TheAnswer, S)
        /\ ~Contains(B.answer_clean_inline, <<"**Sources**">>)
        /\ \A n \in 1..Len(S) : ~Contains(B.answer_clean_inline, EntryStart("md", n))

\* Ten Sources from eleven passages, and an answer that cites the first.
C28_Witness ==
  /\ variant = "clean"
  /\ Rendered
  /\ Len(loc.results) > Len(loc.sources)
  /\ Len(loc.sources) = 10
  /\ TheAnswer = Answer3
  /\ SuccessBody(responses[1]).answer_clean_inline # TheAnswer

\* ----------------------------------------------------------------- C29 ----
\* C29: every success response of api/chat.js, the empty-evidence response
\* included, is a JSON object with a field answer that holds the markdown
\* answer and a field sources that holds the array of Sources.
C29_SuccessFields ==
  variant = "chat" =>
    \A i \in 1..Len(responses) :
      (responses[i].json /\ responses[i].status = 200) =>
        /\ {"answer", "sources"} \subseteq DOMAIN responses[i].body
        /\ responses[i].body.sources = loc.sources
        /\ StartsWith(responses[i].body.answer,
                      IF Rendered THEN TheAnswer ELSE Apology(loc.query))

\* ----------------------------------------------------------------- C30 ----
\* C30: in api/chat.js a preflight request (OPTIONS) is acknowledged with a
\* successful status and no body; its body is not read or validated and no
\* outbound call is made, whatever the body and the configuration.
C30_Preflight ==
  (variant = "chat" /\ req.method = "OPTIONS") =>
    /\ calls = <<>>
    /\ steps = <<>>
    /\ pc \in {"start", "done"}
    /\ pc = "done" =>
         /\ Len(responses) = 1
         /\ responses[1].status \in 200..299
         /\ ~responses[1].json
         /\ responses[1].body = NoBody

\* A preflight with a body that is not JSON, nothing configured.
C30_Witness ==
  /\ variant = "chat"
  /\ req.method = "OPTIONS"
  /\ req.raw.k = "invalid"
  /\ ~env.GX_KEY /\ ~env.GX_BUCKET /\ ~env.OA_KEY
  /\ pc = "done"
  /\ Len(responses) = 1

\* ----------------------------------------------------------------- C31 ----
\* C31: within one encoding only the markers of the original answer are
\* substituted: the text put in for one Source (its title, page and excerpt
\* in the link or tooltip) is not rewritten by the substitution for a later
\* Source, also when that title or excerpt holds a literal [m]; the output
\* is the one simultaneous substitution over the original answer.  For the
\* HTML anchor of api/chat.js and the renderings of the third handler of
\* part_005.
C31_SimultaneousSubstitution ==
  (variant \in {"chat", "clean"} /\ Rendered) =>
    \A enc \in EncodingsOf(variant) \ {"md"} :
      Render(enc, TheAnswer, loc.sources) = Resolved(TheAnswer, loc.sources, enc)

\* ----------------------------------------------------------------- C32 ----
\* C32: a POST request whose decoded JSON body has no non-empty string
\* query (a body that is not an object, such as null, and a query that is a
\* number included) is rejected with a client error before any outbound
\* call, never with a server error.  For api/chat.js and api/debug.js.
C32_NonStringQueryRejected ==
  ( /\ variant \in {"chat", "debug"}
    /\ req.method = "POST"
    /\ req.raw.k = "json"
    /\ ~ValidBody(req.raw) ) =>
    /\ calls = <<>>
    /\ pc = "done" =>
         /\ Len(responses) = 1
         /\ responses[1].status \in 400..499
         /\ "error" \in DOMAIN responses[1].body

\* ----------------------------------------------------------------- C33 ----
\* A retrieval reply with a success status whose body is empty or is not
\* JSON.
BadSuccess(r) == r.ok /\ r.json.t = "bad"

\* C33: a retrieval attempt that returns success with an empty or
\* unparseable body is a hard failure: no further attempt of the matrix is
\* made, the generation backend is not called and the request ends with an
\* error response.  For gxSearch of api/debug.js and trySearch of part_005.
C33_UnparseableSuccess ==
  variant \in Matrix =>
    \A k \in 1..NGxReplies :
      BadSuccess(replies[k]) =>
        /\ NGx = k
        /\ OaCalls = <<>>
        /\ inflight = <<>>
        /\ pc = "done"
        /\ Len(responses) = 1
        /\ responses[1].status >= 400
        /\ DOMAIN responses[1].body = {"error"}

\* The second try of gxSearch succeeds with a body that is not JSON.
C33_Witness ==
  /\ variant = "debug"
  /\ Len(replies) = 2
  /\ AuthFailure(replies[1])
  /\ BadSuccess(replies[2])
  /\ pc = "done"

\* ----------------------------------------------------------------- C34 ----
\* The passage list of an envelope: the results array nested under search,
\* else the top-level results array, else the empty list.
EnvelopePassages(d) ==
  IF d.search.t = "obj" /\ d.search.results.t = "arr" THEN d.search.results.v
  ELSE IF d.results.t = "arr" THEN d.results.v
  ELSE <<>>

\* Retrieval has succeeded with an envelope that carries no pre-assembled
\* context.
RetrievedEnvelope ==
  /\ NGx >= 1
  /\ Len(replies) >= NGx
  /\ replies[NGx].ok
  /\ replies[NGx].json.t = "obj"
  /\ replies[NGx].json.search.t = "obj" => replies[NGx].json.search.text = <<>>

\* C34: normalization accepts both envelopes: the passages are the results
\* array under search when there is one, else the top-level results array,
\* else none; an envelope without a results array, or with a results value
\* that is not an array, gives the empty-evidence outcome and not an error.
\* For api/debug.js and api/chat.js.
C34_BothEnvelopes ==
  (variant \in {"chat", "debug"} /\ RetrievedEnvelope) =>
    LET P == EnvelopePassages(replies[NGx].json)
    IN  IF P = <<>>
        THEN /\ OaCalls = <<>>
             /\ pc = "done"
             /\ Len(responses) = 1
             /\ responses[1].status = 200
             /\ SuccessBody(responses[1]).sources = <<>>
        ELSE /\ loc.results = P
             /\ Len(OaCalls) = 1

\* ----------------------------------------------------------------- C35 ----
\* Retrieval has succeeded with an envelope that has a passage array under
\* search.
Evidence ==
  /\ Len(replies) >= 1
  /\ replies[1].ok
  /\ replies[1].json.t = "obj"
  /\ replies[1].json.search.t = "obj"
  /\ replies[1].json.search.results.t = "arr"

\* The handler has taken the short-circuit to the canned answer.
ShortCircuited == "ShortCircuitEmpty" \in {steps[k] : k \in 1..Len(steps)}

\* C35: the handler short-circuits to the canned answer only when the passage
\* list is empty and there is no pre-assembled context; with passages and no
\* pre-assembled context it synthesizes a context and calls generation
\* exactly once; with a pre-assembled context and no passages it calls
\* generation exactly once and responds with an empty Source list.  For
\* api/chat.js and the SDK handler of part_000.
C35_ShortCircuitOnlyWithoutEvidence ==
  (variant \in {"chat", "sdk"} /\ Evidence) =>
    /\ ShortCircuited => (BackendPassages = <<>> /\ BackendText = <<>>)
    /\ (BackendPassages # <<>> /\ BackendText = <<>>) =>
         (Len(OaCalls) = 1 /\ loc.context # <<>>)
    /\ (BackendPassages = <<>> /\ BackendText # <<>>) =>
         /\ Len(OaCalls) = 1
         /\ (pc = "done" /\ responses[1].status = 200) =>
              SuccessBody(responses[1]).sources = <<>>

\* ----------------------------------------------------------------- C36 ----
\* The request fails one of the checks made before the configuration: it is
\* not a POST (nor a preflight), its body does not decode, or its body has
\* no query or a query that is empty after trimming.
InvalidRequest ==
  \/ req.method = "GET"
  \/ /\ req.method = "POST"
     /\ \/ req.raw.k \in {"empty", "invalid"}
        \/ /\ req.raw.k = "json"
           /\ req.raw.val.t = "obj"
           /\ \/ req.raw.val.query.t = "undef"
              \/ req.raw.val.query.t = "str" /\ AllSpace(req.raw.val.query.s)

ConfigMissing == ~env.GX_KEY \/ ~env.GX_BUCKET \/ ~env.OA_KEY

\* The message for the first missing value, in the order retrieval key,
\* bucket identifier, generation key.
FirstMissing ==
  IF ~env.GX_KEY THEN <<"Missing GROUNDX_API_KEY">>
  ELSE IF ~env.GX_BUCKET THEN <<"Missing GROUNDX_BUCKET_ID">>
  ELSE <<"Missing OPENAI_API_KEY">>

\* C36: the checks are applied in the order method, body decoding, query,
\* configuration: a request that is invalid and is served with configuration
\* missing is answered with a client error and never with the configuration
\* error, and a valid request served with several values missing is told the
\* first one missing in the order retrieval key, bucket identifier,
\* generation key.  For api/chat.js and the first handler of part_005.
C36_ChecksInOrder ==
  (variant \in {"chat", "early"} /\ ConfigMissing /\ pc = "done") =>
    /\ Len(responses) = 1
    /\ InvalidRequest => responses[1].status \in 400..499
    /\ (req.method = "POST" /\ ValidBody(req.raw)) =>
         /\ responses[1].status = 500
         /\ responses[1].body = [error |-> FirstMissing]
         /\ calls = <<>>

\* ----------------------------------------------------------------- C37 ----
\* The handler has responded and is not waiting for anything.
Responded == pc = "done" /\ Len(responses) = 1 /\ inflight = <<>>

=============================================================================
